---- MODULE Spec2Model ----
(***************************************************************************)
(* AeroPulse (adidas26/Proj1): the synthetic environmental-health dataset  *)
(* generator and the statistics routines of utils/statistics               *)
(* (src/unnamed/part_002), with the places of App.tsx that call them.      *)
(*                                                                         *)
(* Numbers.  A JavaScript number is an IEEE-754 binary64 value.  TLC's     *)
(* integers are 32 bits wide, so the module carries its own arithmetic:    *)
(*   - naturals of any size as little-endian sequences of 15-bit limbs     *)
(*     (the B... operators);                                               *)
(*   - binary64 values as records [s, m, e] meaning s * m * 2^e with an    *)
(*     odd mantissa m < 2^53 (the F... operators), every operation         *)
(*     rounded to nearest, ties to even, as the hardware does.  Exponent   *)
(*     overflow, subnormals and the sign of zero play no part in the       *)
(*     ranges reached here and are not modelled.                           *)
(* The generator's sin/cos/log cannot be tabulated over binary64; its      *)
(* record arithmetic is carried in fixed point (see the generator part).   *)
(***************************************************************************)
EXTENDS Integers, Sequences, FiniteSets, TLC

-----------------------------------------------------------------------------
(* Naturals of any size: little-endian limbs in 0..Base-1, no leading zero  *)
(* limb, zero is << >>.                                                    *)

\* The element of a singleton.  A value that is used several times is bound
\* as the element of a singleton, {f(v) : v \in {e}}, so that e is evaluated
\* once.
Only(S) == CHOOSE v \in S : TRUE

Base == 32768

LimbBits == 15

Pow2(k) == 2 ^ k

\* the function f on 1..n as a sequence
Limbs(f, n) == SubSeq(f, 1, n)

\* the index of the most significant non-zero limb, 0 if there is none
BTop(a) ==
  IF \A j \in 1..Len(a) : a[j] = 0 THEN 0
  ELSE CHOOSE j \in 1..Len(a) : a[j] # 0 /\ \A k \in (j + 1)..Len(a) : a[k] = 0

\* The operations on naturals and on binary64 values are functions of their
\* arguments (BNormOf, BAddOf, ...), so that an application evaluates each
\* argument once; the operator of the same name applies the function.
BNormOf == [v \in Seq(Nat) |-> IF Len(v) = 0 \/ v[Len(v)] # 0 THEN v ELSE SubSeq(v, 1, BTop(v))]

BNorm(a) == BNormOf[a]

\* 0 <= n < 2^31
BFromInt(n) == BNorm(<<n % Base, (n \div Base) % Base, n \div (Base * Base)>>)

BLimb(a, pos) == IF pos <= Len(a) THEN a[pos] ELSE 0

\* the carry into limb j of limb sums s: a limb below overflows and every
\* limb between passes a carry on
BCarry(s, j) ==
  IF j = 1 \/ s[j - 1] < Base - 1 THEN 0
  ELSE IF s[j - 1] >= Base THEN 1
  ELSE IF \E k \in 1..(j - 2) : s[k] >= Base /\ \A l \in (k + 1)..(j - 2) : s[l] = Base - 1
  THEN 1 ELSE 0

BAddLimbs(a, b, n) ==
  Only({BNorm(Limbs([j \in 1..(n + 1) |-> (BLimb(s, j) + BCarry(s, j)) % Base], n + 1)) :
          s \in {Limbs([j \in 1..n |-> BLimb(a, j) + BLimb(b, j)], n)}})

BAddOf ==
  [u \in Seq(Nat), v \in Seq(Nat) |-> BAddLimbs(u, v, IF Len(u) > Len(v) THEN Len(u) ELSE Len(v))]

BAdd(a, b) == BAddOf[a, b]

\* the borrow from limb j of limb differences d: a limb below is negative
\* and every limb between is zero
BBorrow(d, j) ==
  IF j = 1 \/ d[j - 1] > 0 THEN 0
  ELSE IF d[j - 1] < 0 THEN 1
  ELSE IF \E k \in 1..(j - 2) : d[k] < 0 /\ \A l \in (k + 1)..(j - 2) : d[l] = 0
  THEN 1 ELSE 0

BSubLimbs(a, b, n) ==
  Only({BNorm(Limbs([j \in 1..n |-> (d[j] - BBorrow(d, j) + Base) % Base], n)) :
          d \in {Limbs([j \in 1..n |-> a[j] - BLimb(b, j)], n)}})

\* a - b for a >= b
BSubOf == [u \in Seq(Nat), v \in Seq(Nat) |-> BSubLimbs(u, v, Len(u))]

BSub(a, b) == BSubOf[a, b]

\* -1, 0, 1 as a < b, a = b, a > b
BCmpLimbs(a, b) ==
  IF Len(a) < Len(b) THEN -1
  ELSE IF Len(a) > Len(b) THEN 1
  ELSE IF a = b THEN 0
  ELSE IF \E j \in 1..Len(a) : a[j] < b[j] /\ \A k \in (j + 1)..Len(a) : a[k] = b[k] THEN -1
  ELSE 1

BCmpOf == [u \in Seq(Nat), v \in Seq(Nat) |-> BCmpLimbs(u, v)]

BCmp(a, b) == BCmpOf[a, b]

\* a * k for 0 <= k < Base: the low halves of the limb products plus their
\* high halves one limb up
BMulSmallLimbs(a, k, n) ==
  BAdd(Limbs([j \in 1..n |-> (a[j] * k) % Base], n),
       Limbs([j \in 1..(n + 1) |-> IF j = 1 THEN 0 ELSE (a[j - 1] * k) \div Base], n + 1))

BMulSmallOf ==
  [u \in Seq(Nat), k \in Nat |->
     IF k = 0 THEN << >> ELSE IF k = 1 THEN u ELSE BMulSmallLimbs(u, k, Len(u))]

BMulSmall(a, k) == BMulSmallOf[a, k]

Zeros(n) == [j \in 1..n |-> 0]

BShiftLimbs(a, n) ==
  IF n = 0 THEN a ELSE Only({IF u = << >> THEN << >> ELSE Zeros(n) \o u : u \in {a}})

RECURSIVE BMulFrom(_, _, _, _)
\* a * b from limb j of b on, acc the sum of the partial products so far
BMulFrom(a, b, j, acc) ==
  IF j > Len(b) THEN acc
  ELSE Only({BMulFrom(a, b, j + 1, sum) :
               sum \in {BAdd(acc, BShiftLimbs(BMulSmall(a, b[j]), j - 1))}})

BMulOf == [u \in Seq(Nat), v \in Seq(Nat) |-> BMulFrom(u, v, 1, << >>)]

BMul(a, b) == BMulOf[a, b]

\* a * 2^k
BShlOf ==
  [u \in Seq(Nat), k \in Nat |->
     IF k = 0 THEN u ELSE BShiftLimbs(BMulSmall(u, Pow2(k % LimbBits)), k \div LimbBits)]

BShl(a, k) == BShlOf[a, k]

BDropLimbs(a, n) == IF n >= Len(a) THEN << >> ELSE SubSeq(a, n + 1, Len(a))

\* floor(a / 2^r) for 0 <= r < LimbBits
BShrBits(a, nbits) ==
  BNorm(Limbs([j \in 1..Len(a) |->
                 (a[j] \div Pow2(nbits)) + (BLimb(a, j + 1) % Pow2(nbits)) * Pow2(LimbBits - nbits)], Len(a)))

\* floor(a / 2^k)
BShrOf ==
  [u \in Seq(Nat), k \in Nat |->
     IF k = 0 THEN u ELSE BShrBits(BDropLimbs(u, k \div LimbBits), k % LimbBits)]

BShr(a, k) == BShrOf[a, k]

BLowLimbs(a, n, nbits) ==
  BNorm(Limbs([j \in 1..(IF Len(a) <= n THEN Len(a) ELSE IF nbits = 0 THEN n ELSE n + 1)
                 |-> IF j <= n THEN a[j] ELSE a[j] % Pow2(nbits)],
              IF Len(a) <= n THEN Len(a) ELSE IF nbits = 0 THEN n ELSE n + 1))

\* a mod 2^k
BLowOf == [u \in Seq(Nat), k \in Nat |-> BLowLimbs(u, k \div LimbBits, k % LimbBits)]

BLow(a, k) == BLowOf[a, k]

\* the number of bits of 0 <= n < 2^31
IntBitLen(n) ==
  IF n = 0 THEN 0 ELSE CHOOSE k \in 1..31 : Pow2(k - 1) <= n /\ (k = 31 \/ n < Pow2(k))

BitLenOf ==
  [u \in Seq(Nat) |-> IF u = << >> THEN 0 ELSE (Len(u) - 1) * LimbBits + IntBitLen(u[Len(u)])]

BitLen(a) == BitLenOf[a]

BIsZero(a) == a = << >>

BIsOdd(a) == Only({u # << >> /\ u[1] % 2 = 1 : u \in {a}})

\* the number of trailing zero bits of 0 < n < 2^31
IntTrailingZeros(n) == CHOOSE k \in 0..30 : n % Pow2(k) = 0 /\ (n \div Pow2(k)) % 2 = 1

BTrailingZerosLimbs(a) ==
  Only({(j - 1) * LimbBits + IntTrailingZeros(a[j]) :
          j \in {CHOOSE j \in 1..Len(a) : a[j] # 0 /\ \A k \in 1..(j - 1) : a[k] = 0}})

\* the number of trailing zero bits of a > 0
BTrailingZerosOf == [u \in Seq(Nat) |-> BTrailingZerosLimbs(u)]

BTrailingZeros(a) == BTrailingZerosOf[a]

\* the value of a natural that fits TLC's integers
BToInt(a) == Only({BLimb(u, 1) + Base * BLimb(u, 2) + Base * Base * BLimb(u, 3) : u \in {a}})

RECURSIVE BQhat(_, _, _)
\* the quotient limb: the estimate qh lowered until qh * b <= r
BQhat(rem, b, qh) == IF BCmp(BMulSmall(b, qh), rem) > 0 THEN BQhat(rem, b, qh - 1) ELSE qh

\* the estimate of the quotient limb of r by b from their top limbs
BQest(rem, b, n) ==
  Only({IF est > Base - 1 THEN Base - 1 ELSE est :
          est \in {(BLimb(rem, n + 1) * Base + BLimb(rem, n)) \div b[n]}})

RECURSIVE BDivModFrom(_, _, _, _, _)
\* schoolbook long division by limbs (b's top limb >= Base/2): limbs i..1
\* of a still to bring down, q the quotient so far, r the remainder so far
BDivModFrom(a, b, pos, q, rem) ==
  IF pos = 0 THEN <<BNorm(q), rem>>
  ELSE Only({BDivModFrom(a, b, pos - 1, step[1], step[2]) :
               step \in {Only({Only({<<(<<qh>> \o q), BSub(r1, BMulSmall(b, qh))>> :
                                       qh \in {BQhat(r1, b, BQest(r1, b, Len(b)))}}) :
                                 r1 \in {BNorm(<<a[pos]>> \o rem)}})}})

\* the division of a by b, both shifted left by sh bits: the limbs of a
\* above the lowest Len(a) - Len(b) + 1 are less than b and start the
\* remainder
BDivModShifted(a, b, sh) ==
  Only({<<qr[1], BShr(qr[2], sh)>> :
          qr \in {IF Len(a) < Len(b) THEN <<(<< >>), a>>
                  ELSE BDivModFrom(a, b, Len(a) - Len(b) + 1, << >>,
                                   BDropLimbs(a, Len(a) - Len(b) + 1))}})

\* <<floor(a / b), a mod b>> for b > 0
BDivModOf ==
  [a \in Seq(Nat), b \in Seq(Nat) |->
     Only({Only({BDivModShifted(u, v, sh) : u \in {BShl(a, sh)}, v \in {BShl(b, sh)}}) :
             sh \in {LimbBits - IntBitLen(b[Len(b)])}})]

BDivMod(a, b) == BDivModOf[a, b]

RECURSIVE IntSqrtFrom(_, _, _)
IntSqrtFrom(n, k, sofar) ==
  IF k < 0 THEN sofar
  ELSE IF (sofar + Pow2(k)) * (sofar + Pow2(k)) <= n THEN IntSqrtFrom(n, k - 1, sofar + Pow2(k))
  ELSE IntSqrtFrom(n, k - 1, sofar)

\* floor(sqrt(n)) for 0 <= n < 2^30
IntSqrt(n) == IntSqrtFrom(n, 14, 0)

RECURSIVE BSqrtFrom(_, _)
\* Newton's iteration downwards from x >= sqrt(a)
BSqrtFrom(a, guess) ==
  Only({IF BCmp(nxt, guess) >= 0 THEN guess ELSE BSqrtFrom(a, nxt) :
          nxt \in {BShr(BAdd(guess, BDivMod(a, guess)[1]), 1)}})

\* floor(sqrt(a))
BSqrtLimbs(a) ==
  IF BitLen(a) <= 30 THEN BFromInt(IntSqrt(BToInt(a)))
  ELSE Only({BSqrtFrom(a, first) :
               first \in {Only({BShl(BFromInt(IntSqrt(BToInt(BShr(a, sh))) + 1), sh \div 2) :
                                  sh \in {Only({IF d % 2 = 0 THEN d ELSE d + 1 :
                                                  d \in {BitLen(a) - 30}})}})}})

BSqrtOf == [u \in Seq(Nat) |-> BSqrtLimbs(u)]

BSqrt(a) == BSqrtOf[a]

-----------------------------------------------------------------------------
(* binary64: [s |-> 1 or -1, m |-> odd natural below 2^53 (or zero),        *)
(* e |-> exponent], the value s * m * 2^e.  Every operation computes the    *)
(* exact result and rounds it once, to nearest, ties to even.              *)

Precision == 53

FZero == [s |-> 1, m |-> << >>, e |-> 0]

FIsZero(a) == a.m = << >>

\* the records that stand for binary64 values
FloatValues == [s : {-1, 1}, m : Seq(Nat), e : Int]

\* the canonical record of s * M * 2^e for M below 2^53
FNormLimbs(s, M, e) ==
  IF M = << >> THEN FZero
  ELSE Only({[s |-> s, m |-> BShr(M, tz), e |-> e + tz] : tz \in {BTrailingZeros(M)}})

FNormOf == [s \in {-1, 1}, U \in Seq(Nat), e \in Int |-> FNormLimbs(s, U, e)]

FNorm(s, M, e) == FNormOf[s, M, e]

\* the binary64 value nearest to s * M * 2^e, ties to even
FRoundLimbs(s, M, e) ==
  IF BitLen(M) <= Precision THEN FNorm(s, M, e)
  ELSE Only({Only({FNorm(s, IF c > 0 \/ (c = 0 /\ BIsOdd(q)) THEN BAdd(q, <<1>>) ELSE q, e + k) :
                     q \in {BShr(M, k)}, c \in {BCmp(BLow(M, k), BShl(<<1>>, k - 1))}}) :
               k \in {BitLen(M) - Precision}})

FRoundOf == [s \in {-1, 1}, U \in Seq(Nat), e \in Int |-> FRoundLimbs(s, U, e)]

FRound(s, M, e) == FRoundOf[s, M, e]

FFromInt(n) == IF n < 0 THEN FNorm(-1, BFromInt(-n), 0) ELSE FNorm(1, BFromInt(n), 0)

FNeg(a) == IF FIsZero(a) THEN a ELSE [a EXCEPT !.s = -a.s]

FAbs(a) == [a EXCEPT !.s = 1]

\* a + b for a and b not zero, e the smaller exponent
FAddAligned(a, b, Ma, Mb, e) ==
  IF a.s = b.s THEN FRound(a.s, BAdd(Ma, Mb), e)
  ELSE Only({IF c = 0 THEN FZero
             ELSE IF c > 0 THEN FRound(a.s, BSub(Ma, Mb), e)
             ELSE FRound(b.s, BSub(Mb, Ma), e) :
               c \in {BCmp(Ma, Mb)}})

FAddValues(a, b) ==
  IF FIsZero(a) THEN b
  ELSE IF FIsZero(b) THEN a
  ELSE Only({Only({FAddAligned(a, b, Ma, Mb, e) :
                     Ma \in {BShl(a.m, a.e - e)}, Mb \in {BShl(b.m, b.e - e)}}) :
               e \in {IF a.e < b.e THEN a.e ELSE b.e}})

FAddOf == [u \in FloatValues, v \in FloatValues |-> FAddValues(u, v)]

FAdd(a, b) == FAddOf[a, b]

FSub(a, b) == FAdd(a, FNeg(b))

FMulValues(a, b) ==
  IF FIsZero(a) \/ FIsZero(b) THEN FZero
  ELSE FRound(a.s * b.s, BMul(a.m, b.m), a.e + b.e)

FMulOf == [u \in FloatValues, v \in FloatValues |-> FMulValues(u, v)]

FMul(a, b) == FMulOf[a, b]

\* a / b for a and b not zero, a's mantissa shifted left by n bits
FDivShifted(a, b, n) ==
  Only({IF qr[2] = << >> THEN FRound(a.s * b.s, qr[1], a.e - b.e - n)
        ELSE FRound(a.s * b.s, BAdd(BAdd(qr[1], qr[1]), <<1>>), a.e - b.e - n - 1) :
          qr \in {BDivMod(BShl(a.m, n), b.m)}})

\* a / b for b # 0: the quotient to 55 bits and more, a sticky bit below it
FDivValues(a, b) ==
  IF FIsZero(a) THEN FZero
  ELSE Only({FDivShifted(a, b, IF d > 0 THEN d ELSE 0) :
               d \in {BitLen(b.m) + Precision + 2 - BitLen(a.m)}})

FDivOf == [u \in FloatValues, v \in FloatValues |-> FDivValues(u, v)]

FDiv(a, b) == FDivOf[a, b]

\* sqrt(a) for a > 0, a's mantissa shifted left by n bits: root the
\* integer square root of the shifted mantissa M
FSqrtShifted(a, n, M, root) ==
  IF BMul(root, root) = M THEN FRound(1, root, (a.e - n) \div 2)
  ELSE FRound(1, BAdd(BAdd(root, root), <<1>>), ((a.e - n) \div 2) - 1)

\* sqrt(a) for a >= 0: the root to 55 bits and more, a sticky bit below it
FSqrtValue(a) ==
  IF FIsZero(a) THEN FZero
  ELSE Only({Only({Only({FSqrtShifted(a, n, M, root) : root \in {BSqrt(M)}}) :
                     M \in {BShl(a.m, n)}}) :
               n \in {Only({IF (a.e - n0) % 2 = 0 THEN n0 ELSE n0 + 1 :
                              n0 \in {Only({IF d > 0 THEN d ELSE 0 :
                                              d \in {2 * (Precision + 2) - BitLen(a.m)}})}})}})

FSqrtOf == [u \in FloatValues |-> FSqrtValue(u)]

FSqrt(a) == FSqrtOf[a]

\* -1, 0, 1 as a < b, a = b, a > b
FCmp(a, b) == Only({IF FIsZero(d) THEN 0 ELSE d.s : d \in {FSub(a, b)}})

FLess(a, b) == FCmp(a, b) < 0

FLeq(a, b) == FCmp(a, b) <= 0

\* the value of the decimal literal n/d (d a power of ten): the binary64
\* value nearest to the quotient
FDec(n, d) == FDiv(FFromInt(n), FFromInt(d))

-----------------------------------------------------------------------------
(* Strings.  A city name is a TLA+ string; CharCodes gives charCodeAt for   *)
(* the names the model draws from.                                          *)

CITIES == <<"Delhi", "Mumbai", "Kolkata", "Bengaluru", "Chennai", "Hyderabad", "Pune", "Aurangabad">>

CharCodes ==
      ("Delhi" :> <<68, 101, 108, 104, 105>>)
   @@ ("Mumbai" :> <<77, 117, 109, 98, 97, 105>>)
   @@ ("Kolkata" :> <<75, 111, 108, 107, 97, 116, 97>>)
   @@ ("Bengaluru" :> <<66, 101, 110, 103, 97, 108, 117, 114, 117>>)
   @@ ("Chennai" :> <<67, 104, 101, 110, 110, 97, 105>>)
   @@ ("Hyderabad" :> <<72, 121, 100, 101, 114, 97, 98, 97, 100>>)
   @@ ("Pune" :> <<80, 117, 110, 101>>)
   @@ ("Aurangabad" :> <<65, 117, 114, 97, 110, 103, 97, 98, 97, 100>>)
   @@ ("Default" :> <<68, 101, 102, 97, 117, 108, 116>>)
   @@ ("" :> <<>>)
   @@ ("constructor" :> <<99, 111, 110, 115, 116, 114, 117, 99, 116, 111, 114>>)

NameLength(name) == Len(CharCodes[name])

charCodeAt(name, i) == CharCodes[name][i + 1]

-----------------------------------------------------------------------------
(* The seed hash and the linear congruential generator, in binary64.        *)

TwoTo32 == BShl(<<1>>, 32)

TwoTo31 == BShl(<<1>>, 31)

\* the magnitude of an integer-valued number as a natural
FMagnitude(a) == IF FIsZero(a) THEN << >> ELSE BShl(a.m, a.e)

\* ToUint32 of an integer-valued number: its value modulo 2^32
ToUint32(a) ==
  LET low == BLow(FMagnitude(a), 32)
  IN  IF a.s = 1 \/ low = << >> THEN low ELSE BSub(TwoTo32, low)

\* the number that the 32 bits u are as a signed integer
FromInt32Bits(u) ==
  IF BCmp(u, TwoTo31) >= 0 THEN FNorm(-1, BSub(TwoTo32, u), 0) ELSE FNorm(1, u, 0)

\* a << k: ToInt32(a) shifted left within 32 bits, read back signed
ShiftLeft(a, k) == FromInt32Bits(BLow(BShl(ToUint32(a), k), 32))

\* one iteration of the hash loop: charCode + ((hash << 5) - hash)
HashStepValue(h, code) == FAdd(FFromInt(code), FSub(ShiftLeft(h, 5), h))

RECURSIVE HashFrom(_, _, _)
HashFrom(name, i, h) ==
  IF i >= NameLength(name) \/ h.s = 0 THEN h
  ELSE HashFrom(name, i + 1, HashStepValue(h, charCodeAt(name, i)))

\* the hash after the whole loop, and the seed new LCG(Math.abs(hash)) gets
HashOf(name) == HashFrom(name, 0, FZero)

SeedOf(name) == FAbs(HashOf(name))

LCGMultiplier == FNorm(1, BFromInt(1664525), 0)

LCGIncrement == FNorm(1, BFromInt(1013904223), 0)

\* a % 2^k for a >= 0 (the remainder is exact in binary64)
FModPow2(a, k) == IF FIsZero(a) \/ a.e >= k THEN FZero ELSE FNorm(a.s, BLow(a.m, k - a.e), a.e)

\* a / 2^k (exact: only the exponent changes)
FDivPow2(a, k) == IF FIsZero(a) THEN FZero ELSE [a EXCEPT !.e = @ - k]

\* LCG.next() without the reduction modulo 2^32
LCGNextUnreduced(seed) ==
  Only({[seed |-> s, value |-> FDivPow2(s, 32)] :
          s \in {Only({FAdd(t, LCGIncrement) : t \in {FMul(seed, LCGMultiplier)}})}})

\* LCG.next(): the new seed and the value returned
LCGNext(seed) ==
  Only({[seed |-> s, value |-> FDivPow2(s, 32)] :
          s \in {Only({FModPow2(FAdd(t, LCGIncrement), 32) : t \in {FMul(seed, LCGMultiplier)}})}})

-----------------------------------------------------------------------------
(* Dates.  A Date is its time value, here in minutes since                 *)
(* 2019-01-01T00:00Z (the generator's start).  The host's time zone is     *)
(* part of the environment: Date's getDate/setDate/getDay/getFullYear and  *)
(* getTimezoneOffset read it, Date.parse of a date-only string and         *)
(* toISOString do not.  A zone is its offset from UTC in minutes at the    *)
(* start and the instants at which the offset changes (IANA tz data for    *)
(* 2019..2024).                                                            *)

MinutesPerDay == 24 * 60

Zones ==
  [ UTC     |-> [base |-> 0,    changes |-> << >>],
    Kolkata |-> [base |-> 330,  changes |-> << >>],
    NewYork |-> [base |-> -300, changes |->
                  << <<98340, -240>>,   <<441000, -300>>,  <<622500, -240>>,
                     <<965160, -300>>,  <<1156740, -240>>, <<1499400, -300>>,
                     <<1680900, -240>>, <<2023560, -300>>, <<2205060, -240>>,
                     <<2547720, -300>>, <<2729220, -240>>, <<3071880, -300>> >>],
    Berlin  |-> [base |-> 60,   changes |->
                  << <<128220, 120>>,  <<430620, 60>>,  <<652380, 120>>,
                     <<954780, 60>>,   <<1176540, 120>>, <<1489020, 60>>,
                     <<1700700, 120>>, <<2013180, 60>>, <<2224860, 120>>,
                     <<2537340, 60>>,  <<2759100, 120>>, <<3061500, 60>> >>],
    SaoPaulo |-> [base |-> -120, changes |-> << <<67800, -180>> >>] ]

RECURSIVE OffsetFrom(_, _, _)
OffsetFrom(z, t, k) ==
  IF k = 0 THEN z.base
  ELSE IF z.changes[k][1] <= t THEN z.changes[k][2]
  ELSE OffsetFrom(z, t, k - 1)

\* the zone's offset from UTC, in minutes, at the instant t
Offset(zone, t) == OffsetFrom(Zones[zone], t, Len(Zones[zone].changes))

ZoneOffsets(zone) ==
  {Zones[zone].base} \cup {Zones[zone].changes[k][2] : k \in 1..Len(Zones[zone].changes)}

\* the instant whose wall-clock reading in the zone is w (the earlier one
\* when a reading repeats, the offset before the change when it is skipped)
UTCFromLocal(zone, w) ==
  LET fit == {o \in ZoneOffsets(zone) : Offset(zone, w - o) = o}
  IN  IF fit # {} THEN w - (CHOOSE o \in fit : \A o2 \in fit : o2 <= o)
      ELSE w - Offset(zone, w - Zones[zone].base - MinutesPerDay)

IsLeapYear(y) == (y % 4 = 0 /\ y % 100 # 0) \/ y % 400 = 0

DaysInYear(y) == IF IsLeapYear(y) THEN 366 ELSE 365

DaysInMonth(y, m) ==
  IF m = 2 THEN (IF IsLeapYear(y) THEN 29 ELSE 28)
  ELSE IF m \in {4, 6, 9, 11} THEN 30 ELSE 31

EpochYear == 2019

RECURSIVE DaysBeforeYear(_)
\* days from the first of January of EpochYear to the first of January of y
DaysBeforeYear(y) ==
  IF y = EpochYear THEN 0
  ELSE IF y > EpochYear THEN DaysBeforeYear(y - 1) + DaysInYear(y - 1)
  ELSE DaysBeforeYear(y + 1) - DaysInYear(y)

RECURSIVE DaysBeforeMonth(_, _)
DaysBeforeMonth(y, m) == IF m = 1 THEN 0 ELSE DaysBeforeMonth(y, m - 1) + DaysInMonth(y, m - 1)

\* the day number (0 = 2019-01-01) of the civil date y-m-d
DayNumber(y, m, d) == DaysBeforeYear(y) + DaysBeforeMonth(y, m) + d - 1

RECURSIVE YearOfDay(_, _)
YearOfDay(n, y) ==
  IF n < DaysBeforeYear(y) THEN YearOfDay(n, y - 1)
  ELSE IF n >= DaysBeforeYear(y + 1) THEN YearOfDay(n, y + 1)
  ELSE y

RECURSIVE MonthOfDay(_, _, _)
MonthOfDay(n, y, m) ==
  IF n >= DayNumber(y, m, 1) + DaysInMonth(y, m) THEN MonthOfDay(n, y, m + 1) ELSE m

\* the civil date of day number n
CivilDate(n) ==
  LET y == YearOfDay(n, EpochYear)
      m == MonthOfDay(n, y, 1)
  IN  [year |-> y, month |-> m, day |-> n - DayNumber(y, m, 1) + 1]

\* floor(a / b) for b > 0 and any a
FloorDiv(a, b) == IF a >= 0 THEN a \div b ELSE -((-a + b - 1) \div b)

\* new Date("yyyy-mm-dd"): midnight UTC of that date
DateParse(y, m, d) == DayNumber(y, m, d) * MinutesPerDay

\* the wall-clock reading (minutes since 2019-01-01T00:00 local) at t
LocalTime(zone, t) == t + Offset(zone, t)

\* date.getFullYear()
getFullYear(zone, t) == CivilDate(FloorDiv(LocalTime(zone, t), MinutesPerDay)).year

\* date.getDay(): 0 is Sunday; 2019-01-01 was a Tuesday
getDay(zone, t) == (FloorDiv(LocalTime(zone, t), MinutesPerDay) + 2 + 7) % 7

\* date.getTimezoneOffset()
getTimezoneOffset(zone, t) == -Offset(zone, t)

\* date.setDate(date.getDate() + 1): the same wall-clock time a day later
SetDateNextDay(zone, t) == UTCFromLocal(zone, LocalTime(zone, t) + MinutesPerDay)

\* date.toISOString().split('T')[0]: the UTC date, its digits yyyymmdd
ISODate(t) ==
  LET c == CivilDate(FloorDiv(t, MinutesPerDay))
  IN  c.year * 10000 + c.month * 100 + c.day

\* the date that follows the date with digits yyyymmdd
NextISODate(d) ==
  ISODate((DayNumber(d \div 10000, (d \div 100) % 100, d % 100) + 1) * MinutesPerDay)

\* getDayOfYear(date)
getDayOfYear(zone, t) ==
  LET start == UTCFromLocal(zone, DayNumber(getFullYear(zone, t), 1, 1) * MinutesPerDay - MinutesPerDay)
      diff  == (t - start) + (getTimezoneOffset(zone, start) - getTimezoneOffset(zone, t))
  IN  FloorDiv(diff, MinutesPerDay)

-----------------------------------------------------------------------------
(* The generator's record arithmetic, in fixed point: a number is an       *)
(* integer count of 1/Scale units, or NaN.  The seasonal sines and cosines *)
(* are tabulated to that precision; Math.round and toFixed are rounding to *)
(* a multiple of the unit they keep.  undefined, as an operand, acts as    *)
(* NaN; NaN makes every comparison false.                                   *)

Scale == 10000

NaN == -2147483647

Null == NaN + 1

IsNaN(a) == a = NaN

\* the literal n/d
Lit(n, d) == (n * Scale) \div d

NPlus(a, b) == IF IsNaN(a) \/ IsNaN(b) THEN NaN ELSE a + b

NMinus(a, b) == IF IsNaN(a) \/ IsNaN(b) THEN NaN ELSE a - b

IntAbs(a) == IF a < 0 THEN -a ELSE a

\* a * b, to the nearest unit
NTimes(a, b) ==
  IF IsNaN(a) \/ IsNaN(b) THEN NaN
  ELSE LET x  == IntAbs(a)
           y  == IntAbs(b)
           xh == x \div Scale
           xl == x % Scale
           yh == y \div Scale
           yl == y % Scale
           m  == xh * yh * Scale + xh * yl + xl * yh + (xl * yl + Scale \div 2) \div Scale
       IN  IF (a < 0) = (b < 0) THEN m ELSE -m

\* (n / d) * a for small integers n, d
NRatio(n, d, a) ==
  IF IsNaN(a) THEN NaN
  ELSE IF a >= 0 THEN (a * n + d \div 2) \div d ELSE -((-a * n + d \div 2) \div d)

NLess(a, b) == ~IsNaN(a) /\ ~IsNaN(b) /\ a < b

NLeq(a, b) == ~IsNaN(a) /\ ~IsNaN(b) /\ a <= b

NGreater(a, b) == NLess(b, a)

\* Math.max(a, b), Math.min(a, b)
MathMax(a, b) == IF IsNaN(a) \/ IsNaN(b) THEN NaN ELSE IF a >= b THEN a ELSE b

MathMin(a, b) == IF IsNaN(a) \/ IsNaN(b) THEN NaN ELSE IF a <= b THEN a ELSE b

\* Math.round(a): the nearest integer, halves upwards
MathRound(a) == IF IsNaN(a) THEN NaN ELSE FloorDiv(a + Scale \div 2, Scale) * Scale

\* parseFloat(a.toFixed(digits)): the nearest multiple of 10^-digits,
\* halves away from zero
ToFixed(a, digits) ==
  LET unit == Scale \div (10 ^ digits)
  IN  IF IsNaN(a) THEN NaN
      ELSE IF a >= 0 THEN ((a + unit \div 2) \div unit) * unit
      ELSE -(((-a + unit \div 2) \div unit) * unit)

\* clip(val, min, max), max possibly null
clip(val, min, max) ==
  LET v == IF NLess(val, min) THEN min ELSE val
  IN  IF max # Null /\ NGreater(v, max) THEN max ELSE v

SinYearTable ==
  << 0, 172, 344, 516, 688, 860, 1031, 1202, 1373, 1543, 1713, 1882,
     2051, 2219, 2387, 2554, 2720, 2885, 3049, 3213, 3375, 3537, 3697, 3857,
     4015, 4172, 4328, 4482, 4636, 4787, 4938, 5087, 5234, 5380, 5524, 5667,
     5808, 5947, 6085, 6220, 6354, 6486, 6616, 6744, 6871, 6995, 7117, 7236,
     7354, 7470, 7583, 7694, 7803, 7909, 8014, 8115, 8215, 8312, 8406, 8498,
     8588, 8675, 8759, 8841, 8920, 8996, 9070, 9141, 9210, 9275, 9338, 9399,
     9456, 9511, 9562, 9611, 9657, 9701, 9741, 9778, 9813, 9845, 9873, 9899,
     9922, 9942, 9959, 9973, 9984, 9993, 9998, 10000, 9999, 9995, 9989, 9979,
     9967, 9951, 9933, 9911, 9887, 9859, 9829, 9796, 9760, 9721, 9679, 9635,
     9587, 9537, 9484, 9428, 9369, 9307, 9243, 9176, 9106, 9034, 8958, 8881,
     8800, 8717, 8631, 8543, 8452, 8359, 8264, 8165, 8065, 7962, 7856, 7749,
     7639, 7527, 7412, 7296, 7177, 7056, 6933, 6808, 6681, 6552, 6421, 6288,
     6153, 6016, 5878, 5738, 5596, 5452, 5307, 5161, 5012, 4863, 4712, 4559,
     4405, 4250, 4094, 3936, 3777, 3617, 3456, 3294, 3131, 2967, 2802, 2637,
     2470, 2303, 2135, 1967, 1798, 1628, 1458, 1287, 1117, 945, 774, 602,
     430, 258, 86, -86, -258, -430, -602, -774, -945, -1117, -1287, -1458,
     -1628, -1798, -1967, -2135, -2303, -2470, -2637, -2802, -2967, -3131, -3294, -3456,
     -3617, -3777, -3936, -4094, -4250, -4405, -4559, -4712, -4863, -5012, -5161, -5307,
     -5452, -5596, -5738, -5878, -6016, -6153, -6288, -6421, -6552, -6681, -6808, -6933,
     -7056, -7177, -7296, -7412, -7527, -7639, -7749, -7856, -7962, -8065, -8165, -8264,
     -8359, -8452, -8543, -8631, -8717, -8800, -8881, -8958, -9034, -9106, -9176, -9243,
     -9307, -9369, -9428, -9484, -9537, -9587, -9635, -9679, -9721, -9760, -9796, -9829,
     -9859, -9887, -9911, -9933, -9951, -9967, -9979, -9989, -9995, -9999, -10000, -9998,
     -9993, -9984, -9973, -9959, -9942, -9922, -9899, -9873, -9845, -9813, -9778, -9741,
     -9701, -9657, -9611, -9562, -9511, -9456, -9399, -9338, -9275, -9210, -9141, -9070,
     -8996, -8920, -8841, -8759, -8675, -8588, -8498, -8406, -8312, -8215, -8115, -8014,
     -7909, -7803, -7694, -7583, -7470, -7354, -7236, -7117, -6995, -6871, -6744, -6616,
     -6486, -6354, -6220, -6085, -5947, -5808, -5667, -5524, -5380, -5234, -5087, -4938,
     -4787, -4636, -4482, -4328, -4172, -4015, -3857, -3697, -3537, -3375, -3213, -3049,
     -2885, -2720, -2554, -2387, -2219, -2051, -1882, -1713, -1543, -1373, -1202, -1031,
     -860, -688, -516, -344, -172 >>

CosYearTable ==
  << 10000, 9999, 9994, 9987, 9976, 9963, 9947, 9927, 9905, 9880, 9852, 9821,
     9787, 9751, 9711, 9668, 9623, 9575, 9524, 9470, 9413, 9354, 9291, 9226,
     9159, 9088, 9015, 8939, 8861, 8780, 8696, 8610, 8521, 8429, 8336, 8239,
     8140, 8039, 7936, 7830, 7722, 7611, 7498, 7383, 7266, 7147, 7025, 6902,
     6776, 6649, 6519, 6387, 6254, 6119, 5982, 5843, 5702, 5560, 5416, 5271,
     5124, 4975, 4825, 4674, 4521, 4367, 4211, 4054, 3896, 3737, 3577, 3416,
     3253, 3090, 2926, 2761, 2595, 2428, 2261, 2093, 1925, 1755, 1586, 1415,
     1245, 1074, 903, 731, 559, 387, 215, 43, -129, -301, -473, -645,
     -817, -988, -1159, -1330, -1501, -1671, -1840, -2009, -2177, -2345, -2512, -2678,
     -2844, -3008, -3172, -3335, -3496, -3657, -3817, -3975, -4133, -4289, -4444, -4597,
     -4750, -4900, -5050, -5197, -5344, -5488, -5632, -5773, -5913, -6051, -6187, -6321,
     -6453, -6584, -6713, -6839, -6964, -7086, -7207, -7325, -7441, -7555, -7667, -7776,
     -7883, -7988, -8090, -8190, -8288, -8383, -8475, -8566, -8653, -8738, -8820, -8900,
     -8977, -9052, -9124, -9193, -9259, -9323, -9384, -9442, -9497, -9550, -9599, -9646,
     -9690, -9731, -9769, -9805, -9837, -9867, -9893, -9917, -9937, -9955, -9970, -9982,
     -9991, -9997, -10000, -10000, -9997, -9991, -9982, -9970, -9955, -9937, -9917, -9893,
     -9867, -9837, -9805, -9769, -9731, -9690, -9646, -9599, -9550, -9497, -9442, -9384,
     -9323, -9259, -9193, -9124, -9052, -8977, -8900, -8820, -8738, -8653, -8566, -8475,
     -8383, -8288, -8190, -8090, -7988, -7883, -7776, -7667, -7555, -7441, -7325, -7207,
     -7086, -6964, -6839, -6713, -6584, -6453, -6321, -6187, -6051, -5913, -5773, -5632,
     -5488, -5344, -5197, -5050, -4900, -4750, -4597, -4444, -4289, -4133, -3975, -3817,
     -3657, -3496, -3335, -3172, -3008, -2844, -2678, -2512, -2345, -2177, -2009, -1840,
     -1671, -1501, -1330, -1159, -988, -817, -645, -473, -301, -129, 43, 215,
     387, 559, 731, 903, 1074, 1245, 1415, 1586, 1755, 1925, 2093, 2261,
     2428, 2595, 2761, 2926, 3090, 3253, 3416, 3577, 3737, 3896, 4054, 4211,
     4367, 4521, 4674, 4825, 4975, 5124, 5271, 5416, 5560, 5702, 5843, 5982,
     6119, 6254, 6387, 6519, 6649, 6776, 6902, 7025, 7147, 7266, 7383, 7498,
     7611, 7722, 7830, 7936, 8039, 8140, 8239, 8336, 8429, 8521, 8610, 8696,
     8780, 8861, 8939, 9015, 9088, 9159, 9226, 9291, 9354, 9413, 9470, 9524,
     9575, 9623, 9668, 9711, 9751, 9787, 9821, 9852, 9880, 9905, 9927, 9947,
     9963, 9976, 9987, 9994, 9999 >>

SinHalfYearTable ==
  << 0, 349, 698, 1045, 1392, 1736, 2079, 2419, 2756, 3090, 3420, 3746,
     4067, 4384, 4695, 5000, 5299, 5592, 5878, 6157, 6428, 6691, 6947, 7193,
     7431, 7660, 7880, 8090, 8290, 8480, 8660, 8829, 8988, 9135, 9272, 9397,
     9511, 9613, 9703, 9781, 9848, 9903, 9945, 9976, 9994, 10000, 9994, 9976,
     9945, 9903, 9848, 9781, 9703, 9613, 9511, 9397, 9272, 9135, 8988, 8829,
     8660, 8480, 8290, 8090, 7880, 7660, 7431, 7193, 6947, 6691, 6428, 6157,
     5878, 5592, 5299, 5000, 4695, 4384, 4067, 3746, 3420, 3090, 2756, 2419,
     2079, 1736, 1392, 1045, 698, 349, 0, -349, -698, -1045, -1392, -1736,
     -2079, -2419, -2756, -3090, -3420, -3746, -4067, -4384, -4695, -5000, -5299, -5592,
     -5878, -6157, -6428, -6691, -6947, -7193, -7431, -7660, -7880, -8090, -8290, -8480,
     -8660, -8829, -8988, -9135, -9272, -9397, -9511, -9613, -9703, -9781, -9848, -9903,
     -9945, -9976, -9994, -10000, -9994, -9976, -9945, -9903, -9848, -9781, -9703, -9613,
     -9511, -9397, -9272, -9135, -8988, -8829, -8660, -8480, -8290, -8090, -7880, -7660,
     -7431, -7193, -6947, -6691, -6428, -6157, -5878, -5592, -5299, -5000, -4695, -4384,
     -4067, -3746, -3420, -3090, -2756, -2419, -2079, -1736, -1392, -1045, -698, -349 >>

SinWeekTable ==
  << 0, 7818, 9749, 4339, -4339, -9749, -7818 >>

RadiusTable ==
  << 26328, 21758, 19268, 17435, 15928, 14614, 13422, 12310, 11247, 10211, 9178, 8127,
     7027, 5829, 4437, 2520 >>

CosTurnTable ==
  << 9808, 8315, 5556, 1951, -1951, -5556, -8315, -9808, -9808, -8315, -5556, -1951,
     1951, 5556, 8315, 9808 >>


\* Math.sin(2 * Math.PI * k / 365) and the like, for an integer k
SinYear(k) == SinYearTable[((k + 365) % 365) + 1]

CosYear(k) == CosYearTable[((k + 365) % 365) + 1]

SinHalfYear(k) == SinHalfYearTable[((k + 180) % 180) + 1]

SinWeek(k) == SinWeekTable[((k + 7) % 7) + 1]

RECURSIVE DrawNonZero(_)
\* while (u === 0) u = rng.next(): the first non-zero draw and the seed
\* it leaves
DrawNonZero(seed) ==
  Only({IF FIsZero(n.value) THEN DrawNonZero(n.seed) ELSE n : n \in {LCGNext(seed)}})

\* the cell of a table of n that the draw u in [0, 1) falls into
TableCell(u, n) == BToInt(BShr(BMulSmall(BShl(u.m, u.e + 32), n), 32)) + 1

\* mean + z * stdDev for the draws u and v (v with the seed it leaves)
BoxMuller(mean, stdDev, u, v) ==
  LET z == NTimes(RadiusTable[TableCell(u, Len(RadiusTable))],
                  CosTurnTable[TableCell(v.value, Len(CosTurnTable))])
  IN  [value |-> NPlus(mean, NTimes(z, stdDev)), seed |-> v.seed]

\* randomNormal(mean, stdDev, rng): the value and the seed the generator is
\* left with.  z = sqrt(-2 ln u) cos(2 pi v), each factor read from its
\* table at the cell of its draw.
randomNormal(mean, stdDev, seed) ==
  Only({Only({BoxMuller(mean, stdDev, u.value, v) : v \in {DrawNonZero(u.seed)}}) :
          u \in {DrawNonZero(seed)}})

-----------------------------------------------------------------------------
(* generateSyntheticCityData                                               *)

baseProfiles ==
  [ Delhi      |-> [PM2_5 |-> Lit(70, 1), PM10 |-> Lit(150, 1), NO2 |-> Lit(55, 1), SO2 |-> Lit(10, 1),
                    CO |-> Lit(9, 10), O3 |-> Lit(20, 1), temp |-> Lit(25, 1), hum |-> Lit(45, 1)],
    Mumbai     |-> [PM2_5 |-> Lit(40, 1), PM10 |-> Lit(80, 1), NO2 |-> Lit(35, 1), SO2 |-> Lit(6, 1),
                    CO |-> Lit(6, 10), O3 |-> Lit(18, 1), temp |-> Lit(27, 1), hum |-> Lit(70, 1)],
    Kolkata    |-> [PM2_5 |-> Lit(55, 1), PM10 |-> Lit(110, 1), NO2 |-> Lit(45, 1), SO2 |-> Lit(8, 1),
                    CO |-> Lit(8, 10), O3 |-> Lit(22, 1), temp |-> Lit(26, 1), hum |-> Lit(65, 1)],
    Bengaluru  |-> [PM2_5 |-> Lit(30, 1), PM10 |-> Lit(60, 1), NO2 |-> Lit(25, 1), SO2 |-> Lit(4, 1),
                    CO |-> Lit(5, 10), O3 |-> Lit(25, 1), temp |-> Lit(24, 1), hum |-> Lit(60, 1)],
    Chennai    |-> [PM2_5 |-> Lit(35, 1), PM10 |-> Lit(70, 1), NO2 |-> Lit(30, 1), SO2 |-> Lit(5, 1),
                    CO |-> Lit(6, 10), O3 |-> Lit(28, 1), temp |-> Lit(28, 1), hum |-> Lit(75, 1)],
    Hyderabad  |-> [PM2_5 |-> Lit(45, 1), PM10 |-> Lit(90, 1), NO2 |-> Lit(30, 1), SO2 |-> Lit(6, 1),
                    CO |-> Lit(7, 10), O3 |-> Lit(24, 1), temp |-> Lit(26, 1), hum |-> Lit(60, 1)],
    Pune       |-> [PM2_5 |-> Lit(30, 1), PM10 |-> Lit(60, 1), NO2 |-> Lit(20, 1), SO2 |-> Lit(3, 1),
                    CO |-> Lit(4, 10), O3 |-> Lit(20, 1), temp |-> Lit(25, 1), hum |-> Lit(55, 1)],
    Aurangabad |-> [PM2_5 |-> Lit(29, 1), PM10 |-> Lit(70, 1), NO2 |-> Lit(25, 1), SO2 |-> Lit(2, 1),
                    CO |-> Lit(6, 10), O3 |-> Lit(18, 1), temp |-> Lit(27, 1), hum |-> Lit(51, 1)] ]

\* What an object literal inherits from Object.prototype: baseProfiles[name]
\* for one of these names is that member (a function or an object: truthy),
\* whose PM2_5, PM10, ... are undefined.
ObjectPrototypeMembers ==
  {"constructor", "toString", "toLocaleString", "valueOf", "hasOwnProperty",
   "isPrototypeOf", "propertyIsEnumerable", "__proto__"}

InheritedMember ==
  [PM2_5 |-> NaN, PM10 |-> NaN, NO2 |-> NaN, SO2 |-> NaN, CO |-> NaN, O3 |-> NaN, temp |-> NaN, hum |-> NaN]

\* baseProfiles[cityName] || baseProfiles["Delhi"]
ResolveProfile(name) ==
  IF name \in DOMAIN baseProfiles THEN baseProfiles[name]
  ELSE IF name \in ObjectPrototypeMembers THEN InheritedMember
  ELSE baseProfiles["Delhi"]

\* the standard deviations of the eight randomNormal(0, stdDev, rng) calls of
\* one iteration of the date loop, in the order they are made: noisePM and
\* the noises of NO2, SO2, CO, O3, temp, hum and air_density
NoiseDeviations(prof) ==
  <<NTimes(prof.PM2_5, Lit(12, 100)), Lit(5, 1), Lit(15, 10), Lit(1, 10), Lit(2, 1), Lit(15, 10),
    Lit(5, 1), Lit(2, 1000)>>

RECURSIVE NormalDrawsFrom(_, _, _)
\* successive randomNormal(0, devs[k], rng) calls from the seed on: their
\* values, after those of acc, and the seed the generator is left with
NormalDrawsFrom(devs, seed, acc) ==
  IF Len(acc) >= Len(devs) THEN [values |-> acc, seed |-> seed]
  ELSE Only({NormalDrawsFrom(devs, n.seed, Append(acc, n.value)) :
               n \in {randomNormal(0, devs[Len(acc) + 1], seed)}})

NormalDraws(devs, seed) == NormalDrawsFrom(devs, seed, << >>)

\* one iteration of the date loop: the raw record of the day at time t, given
\* the values of its eight randomNormal calls
RawDay(prof, zn, t, noise) ==
  LET dayOfYear    == getDayOfYear(zn, t)
      dayOfWeek    == getDay(zn, t)
      seasonalPM   == 20 * SinYear(dayOfYear + 10)
      seasonalTemp == 6 * SinYear(dayOfYear - 80)
      weekly       == 5 * SinWeek(dayOfWeek)
      noisePM      == noise[1]
      PM2_5        == clip(NPlus(NPlus(NPlus(prof.PM2_5, seasonalPM), weekly), noisePM), Lit(2, 1), Null)
      PM10         == clip(NPlus(NPlus(NPlus(prof.PM10, NTimes(Lit(8, 10), seasonalPM)), weekly),
                                 NTimes(noisePM, Lit(9, 10))), Lit(5, 1), Null)
      NO2          == clip(NPlus(NPlus(prof.NO2, 5 * SinHalfYear(dayOfYear)), noise[2]), Lit(2, 1), Null)
      SO2          == clip(NPlus(prof.SO2, noise[3]), Lit(5, 10), Null)
      CO           == clip(NPlus(prof.CO, noise[4]), Lit(1, 10), Null)
      O3           == clip(NPlus(NPlus(prof.O3, 6 * CosYear(dayOfYear)), noise[5]), Lit(1, 1), Null)
      temp         == NPlus(NPlus(prof.temp, seasonalTemp), noise[6])
      hum          == clip(NPlus(NPlus(prof.hum, 8 * SinYear(dayOfYear + 50)), noise[7]),
                           Lit(10, 1), Lit(100, 1))
      air_density  == clip(NPlus(NMinus(NMinus(Lit(1225, 1000),
                                               NTimes(NMinus(temp, Lit(15, 1)), Lit(3, 1000))),
                                        NTimes(NMinus(hum, Lit(50, 1)), Lit(5, 10000))),
                                 noise[8]),
                           Lit(9, 10), Lit(13, 10))
  IN  [dateObj |-> t, PM2_5 |-> PM2_5, PM10 |-> PM10, NO2 |-> NO2, SO2 |-> SO2, CO |-> CO,
       O3 |-> O3, temp |-> temp, hum |-> hum, air_density |-> air_density]

baseAdm == Lit(20, 1)

sensPM == Lit(3, 100)

lag == 3

\* the PM2.5 value of the same day, whatever the day index
SameDayPM(raw, i) == raw[i + 1].PM2_5

\* the PM2.5 value that enters the admissions of day index i
LaggedPM(raw, i) == IF i >= lag THEN raw[i - lag + 1].PM2_5 ELSE raw[i + 1].PM2_5

\* the conversion with its last segment anchored at 36.5 instead of 35.5
AQIOfShiftedSegment(pm) ==
  IF NLeq(pm, Lit(12, 1)) THEN NRatio(50, 12, pm)
  ELSE IF NLeq(pm, Lit(354, 10)) THEN NPlus(Lit(50, 1), NRatio(490, 233, NMinus(pm, Lit(12, 1))))
  ELSE NPlus(Lit(100, 1), NRatio(49, 20, NMinus(pm, Lit(365, 10))))

\* the US-AQI-like value of a PM2.5 concentration, before rounding
AQIOf(pm) ==
  IF NLeq(pm, Lit(12, 1)) THEN NRatio(50, 12, pm)
  ELSE IF NLeq(pm, Lit(354, 10)) THEN NPlus(Lit(50, 1), NRatio(490, 233, NMinus(pm, Lit(12, 1))))
  ELSE NPlus(Lit(100, 1), NRatio(49, 20, NMinus(pm, Lit(355, 10))))

\* one iteration of the health loop: the record pushed for day index i, given
\* the value of its randomNormal call
HealthDay(name, zn, raw, i, noise) ==
  LET d              == raw[i + 1]
      dayOfYear      == getDayOfYear(zn, d.dateObj)
      pmLagged       == LaggedPM(raw, i)
      seasonalHealth == 3 * SinYear(dayOfYear)
      tempFactor     == NTimes(MathMax(0, NMinus(Lit(30, 1), d.temp)), Lit(5, 100))
      humFactor      == NTimes(MathMax(0, NMinus(d.hum, Lit(80, 1))), Lit(2, 100))
      adm            == NPlus(NPlus(NPlus(NPlus(NPlus(baseAdm, seasonalHealth), NTimes(sensPM, pmLagged)),
                                          tempFactor), humFactor), noise)
      admissions     == MathRound(clip(adm, 0, Null))
      asthmaFactor   == clip(Lit(45, 100) + NTimes(Lit(1, 10), SinYear(dayOfYear)), Lit(2, 10), Lit(7, 10))
      copdFactor     == clip(Lit(25, 100) + NTimes(Lit(5, 100), CosYear(dayOfYear)), Lit(1, 10), Lit(5, 10))
      asthma         == MathRound(NTimes(admissions, asthmaFactor))
      copd           == MathRound(NTimes(admissions, copdFactor))
      bronchitis     == MathMax(0, NMinus(NMinus(admissions, asthma), copd))
      symptomSeverity == MathMin(Lit(10, 1), ToFixed(NTimes(NRatio(1, 50, admissions), Lit(5, 1)), 1))
      aqi            == AQIOf(d.PM2_5)
  IN  [city |-> name, date |-> ISODate(d.dateObj),
       aqi |-> MathRound(aqi), pm2_5 |-> MathRound(d.PM2_5), pm10 |-> MathRound(d.PM10),
       no2 |-> ToFixed(d.NO2, 1), so2 |-> ToFixed(d.SO2, 1), co |-> ToFixed(d.CO, 2),
       o3 |-> ToFixed(d.O3, 1), temperature |-> ToFixed(d.temp, 1),
       humidity |-> MathRound(d.hum), air_density |-> ToFixed(d.air_density, 3),
       admissions |-> admissions, asthma |-> asthma, copd |-> copd,
       bronchitis |-> bronchitis, symptomSeverity |-> symptomSeverity]

-----------------------------------------------------------------------------
(* Statistics, in binary64 (the exponent range is not modelled: no         *)
(* overflow to Infinity, no underflow to zero).                            *)

RECURSIVE SumFrom(_, _, _)
\* data.reduce((a, b) => a + b, 0), from index i on with the sum so far
SumFrom(data, i, acc) ==
  IF i > Len(data) THEN acc
  ELSE Only({SumFrom(data, i + 1, sum) : sum \in {FAdd(acc, data[i])}})

mean(data) ==
  IF Len(data) = 0 THEN FZero
  ELSE FDiv(SumFrom(data, 1, FZero), FFromInt(Len(data)))

RECURSIVE PearsonSums(_, _, _, _, _, _)
\* the loop of pearsonCorrelation from index i on: num, denX and denY
PearsonSums(x, y, xMean, yMean, i, acc) ==
  IF i > Len(x) THEN acc
  ELSE Only({PearsonSums(x, y, xMean, yMean, i + 1, sums) :
               sums \in {Only({[num  |-> FAdd(acc.num, FMul(xDiff, yDiff)),
                                denX |-> FAdd(acc.denX, FMul(xDiff, xDiff)),
                                denY |-> FAdd(acc.denY, FMul(yDiff, yDiff))] :
                                 xDiff \in {FSub(x[i], xMean)}, yDiff \in {FSub(y[i], yMean)}})}})

PearsonLoop(x, y) ==
  Only({PearsonSums(x, y, xMean, yMean, 1, [num |-> FZero, denX |-> FZero, denY |-> FZero]) :
          xMean \in {mean(x)}, yMean \in {mean(y)}})

\* pearsonCorrelation with the denominator taken from x alone
PearsonOverX(x, y) ==
  IF Len(x) # Len(y) \/ Len(x) = 0 THEN FZero
  ELSE Only({IF FIsZero(sums.denX) \/ FIsZero(sums.denY) THEN FZero
             ELSE FDiv(sums.num, FSqrt(FMul(sums.denX, sums.denX))) :
               sums \in {PearsonLoop(x, y)}})

pearsonCorrelation(x, y) ==
  IF Len(x) # Len(y) \/ Len(x) = 0 THEN FZero
  ELSE Only({IF FIsZero(sums.denX) \/ FIsZero(sums.denY) THEN FZero
             ELSE FDiv(sums.num, FSqrt(FMul(sums.denX, sums.denY))) :
               sums \in {PearsonLoop(x, y)}})

RECURSIVE RegressionSums(_, _, _, _, _, _)
\* the loop of calculateRegressionAnalysis from index i on: num and den
RegressionSums(x, y, xMean, yMean, i, acc) ==
  IF i > Len(x) THEN acc
  ELSE Only({RegressionSums(x, y, xMean, yMean, i + 1, sums) :
               sums \in {Only({[num |-> FAdd(acc.num, FMul(xDiff, FSub(y[i], yMean))),
                                den |-> FAdd(acc.den, FMul(xDiff, xDiff))] :
                                 xDiff \in {FSub(x[i], xMean)}})}})

\* slope, intercept and the correlation figures from the loop's sums
RegressionResult(xMean, yMean, sums, correlationCoefficient) ==
  LET slope == IF FIsZero(sums.den) THEN FZero ELSE FDiv(sums.num, sums.den)
  IN  [slope |-> slope,
       intercept |-> FSub(yMean, FMul(slope, xMean)),
       rSquared |-> FMul(correlationCoefficient, correlationCoefficient),
       correlationCoefficient |-> correlationCoefficient]

\* the regression of y on x, both non-empty
RegressionOf(x, y) ==
  Only({Only({RegressionResult(xMean, yMean, sums, correlationCoefficient) :
                sums \in {RegressionSums(x, y, xMean, yMean, 1, [num |-> FZero, den |-> FZero])}}) :
          xMean \in {mean(x)}, yMean \in {mean(y)}, correlationCoefficient \in {pearsonCorrelation(x, y)}})

\* data.map(d => d[key])
Column(data, key) == SubSeq([idx \in 1..Len(data) |-> data[idx][key]], 1, Len(data))

\* calculateRegressionAnalysis with x and y exchanged
RegressionOfAqiOnSeverity(data) ==
  IF Len(data) = 0
  THEN [slope |-> FZero, intercept |-> FZero, rSquared |-> FZero, correlationCoefficient |-> FZero]
  ELSE Only({RegressionOf(x, y) :
               x \in {Column(data, "symptomSeverity")}, y \in {Column(data, "aqi")}})

calculateRegressionAnalysis(data) ==
  IF Len(data) = 0
  THEN [slope |-> FZero, intercept |-> FZero, rSquared |-> FZero, correlationCoefficient |-> FZero]
  ELSE Only({RegressionOf(x, y) :
               x \in {Column(data, "aqi")}, y \in {Column(data, "symptomSeverity")}})

LAGS == <<0, 1, 3, 7, 14>>

\* an argument of slice as an offset into an array of length len: negative
\* arguments count from the end, all are clamped to 0..len
RelativeIndex(k, len) ==
  IF k < 0 THEN (IF len + k < 0 THEN 0 ELSE len + k) ELSE (IF k > len THEN len ELSE k)

\* a.slice(begin, end), indices from 0
Slice(a, begin, end) == SubSeq(a, RelativeIndex(begin, Len(a)) + 1, RelativeIndex(end, Len(a)))

\* a.slice(begin)
SliceFrom(a, begin) == Slice(a, begin, Len(a))

RECURSIVE LagEntriesZeroFilled(_, _, _, _, _, _)
\* the lags.forEach of calculatePollutantLagCorrelations with an entry of
\* correlation 0 for a lag that is too long
LagEntriesZeroFilled(values, health, pollutant, lags, k, results) ==
  IF k > Len(lags) THEN results
  ELSE Only({LagEntriesZeroFilled(values, health, pollutant, lags, k + 1, longer) :
               longer \in {Append(results,
                                  [pollutant |-> pollutant, lagDays |-> lags[k],
                                   correlation |->
                                     IF lags[k] >= Len(values) THEN FZero
                                     ELSE pearsonCorrelation(Slice(values, 0, Len(values) - lags[k]),
                                                             SliceFrom(health, lags[k]))])}})

RECURSIVE LagEntriesShiftedBack(_, _, _, _, _, _)
\* the lags.forEach of calculatePollutantLagCorrelations with the two
\* slices exchanged
LagEntriesShiftedBack(values, health, pollutant, lags, k, results) ==
  IF k > Len(lags) THEN results
  ELSE IF lags[k] >= Len(values)
       THEN LagEntriesShiftedBack(values, health, pollutant, lags, k + 1, results)
       ELSE Only({LagEntriesShiftedBack(values, health, pollutant, lags, k + 1, longer) :
                    longer \in {Append(results,
                                       [pollutant |-> pollutant, lagDays |-> lags[k],
                                        correlation |->
                                          pearsonCorrelation(SliceFrom(values, lags[k]),
                                                             Slice(health, 0, Len(health) - lags[k]))])}})

\* pearsonCorrelation(x, y) of the two slices for a lag
LaggedCorrelation(values, health, lagDays) ==
  Only({pearsonCorrelation(x, y) :
          x \in {Slice(values, 0, Len(values) - lagDays)}, y \in {SliceFrom(health, lagDays)}})

RECURSIVE LagEntriesFrom(_, _, _, _, _, _)
\* lags.forEach(...) for one pollutant, from the k-th lag on: results with
\* the entries pushed
LagEntriesFrom(values, health, pollutant, lags, k, results) ==
  IF k > Len(lags) THEN results
  ELSE IF lags[k] >= Len(values)
       THEN LagEntriesFrom(values, health, pollutant, lags, k + 1, results)
       ELSE Only({LagEntriesFrom(values, health, pollutant, lags, k + 1, longer) :
                    longer \in {Append(results,
                                       [pollutant |-> pollutant, lagDays |-> lags[k],
                                        correlation |-> LaggedCorrelation(values, health, lags[k])])}})

RECURSIVE PollutantEntriesFrom(_, _, _, _, _, _)
\* pollutants.forEach(...) from the j-th pollutant on
PollutantEntriesFrom(data, health, pollutants, lags, j, results) ==
  IF j > Len(pollutants) THEN results
  ELSE Only({PollutantEntriesFrom(data, health, pollutants, lags, j + 1, longer) :
               longer \in {Only({LagEntriesFrom(values, health, pollutants[j], lags, 1, results) :
                                   values \in {Column(data, pollutants[j])}})}})

calculatePollutantLagCorrelations(data, pollutants, lags) ==
  Only({PollutantEntriesFrom(data, health, pollutants, lags, 1, << >>) :
          health \in {Column(data, "symptomSeverity")}})

\* the lags.map of calculateLagCorrelations without the entries of the
\* lags that are too long
calculateLagCorrelationsOmitting(data, lags) ==
  Only({SelectSeq([k \in 1..Len(lags) |->
                     [lagDays |-> lags[k],
                      correlation |-> IF lags[k] >= Len(data) THEN FZero
                                      ELSE LaggedCorrelation(aqi, symptoms, lags[k])]],
                  LAMBDA entry : entry.lagDays < Len(data)) :
          aqi \in {Column(data, "aqi")}, symptoms \in {Column(data, "symptomSeverity")}})

\* calculateLagCorrelations(data, lags): lags.map(lag => ...)
calculateLagCorrelations(data, lags) ==
  Only({[k \in 1..Len(lags) |->
           IF lags[k] >= Len(data)
           THEN [lagDays |-> lags[k], correlation |-> FZero]
           ELSE [lagDays |-> lags[k],
                 correlation |-> LaggedCorrelation(aqi, symptoms, lags[k])]] :
          aqi \in {Column(data, "aqi")}, symptoms \in {Column(data, "symptomSeverity")}})

\* the labels getPM25Category returns, in the order of its tests
Bands == <<"Good", "Satisfactory", "Moderate", "Poor", "Very Poor", "Severe">>

\* what getPM25Category returns for band k
BandStyle(k) ==
  [label |-> Bands[k],
   desc  |-> <<"Low health risk", "Moderate", "Unhealthy for SG", "Unhealthy", "Very Unhealthy",
               "Hazardous">>[k],
   color |-> <<"text-emerald-700 bg-emerald-50 border-emerald-200",
               "text-yellow-700 bg-yellow-50 border-yellow-200",
               "text-orange-700 bg-orange-50 border-orange-200",
               "text-red-700 bg-red-50 border-red-200",
               "text-purple-700 bg-purple-50 border-purple-200",
               "text-rose-900 bg-rose-100 border-rose-200">>[k]]

\* getPM25Category with the upper bound of every band excluded
PM25CategoryExclusive(pm25) ==
  IF NLess(pm25, Lit(30, 1)) THEN BandStyle(1)
  ELSE IF NLess(pm25, Lit(60, 1)) THEN BandStyle(2)
  ELSE IF NLess(pm25, Lit(90, 1)) THEN BandStyle(3)
  ELSE IF NLess(pm25, Lit(120, 1)) THEN BandStyle(4)
  ELSE IF NLess(pm25, Lit(250, 1)) THEN BandStyle(5)
  ELSE BandStyle(6)

getPM25Category(pm25) ==
  IF NLeq(pm25, Lit(30, 1)) THEN BandStyle(1)
  ELSE IF NLeq(pm25, Lit(60, 1)) THEN BandStyle(2)
  ELSE IF NLeq(pm25, Lit(90, 1)) THEN BandStyle(3)
  ELSE IF NLeq(pm25, Lit(120, 1)) THEN BandStyle(4)
  ELSE IF NLeq(pm25, Lit(250, 1)) THEN BandStyle(5)
  ELSE BandStyle(6)

-----------------------------------------------------------------------------
(* The program's state.                                                    *)

VARIABLES
  zone,      \* the host's time zone (environment, fixed for a run of the program)
  limit,     \* the number of days a call is followed for (0: to the end date)
  callsLeft, \* the calls of generateSyntheticCityData still to be made
  pc,        \* where the call in progress stands: "idle", "hash", "days", "health"
  cityName,  \* the argument of the call in progress
  hash,      \* let hash
  i,         \* the loop index of the hash loop and of the health loop
  rng,       \* the seed field of the call's LCG
  p,         \* const p: the profile in use
  current,   \* let current: the date the day loop stands at
  rawData,   \* const rawData
  data,      \* const data
  results,   \* what the calls made so far returned: [city, data]
  lcg,       \* the seed field of a stand-alone LCG
  last,      \* its last next(): [before, value], or << >> before the first
  drawn,     \* how many next() calls it has served
  x, y,      \* the arguments of pearsonCorrelation
  r, rSwapped, \* pearsonCorrelation(x, y) and pearsonCorrelation(y, x): << >> until called
  dataset,   \* the records handed to the analysis routines
  regression, \* what calculateRegressionAnalysis(dataset) returned: << >> until called
  lagResults, \* what calculatePollutantLagCorrelations returned: << >> until called
  reading,   \* a PM2.5 concentration
  category,  \* what getPM25Category(reading) returned: << >> until called
  index,     \* let aqi for a day whose PM2_5 is reading, unrounded: << >> until computed
  allData,   \* let allData of generateAllCitiesData
  forEachIndex, \* the city CITIES.forEach stands at (1..8), 0 outside generateAllCitiesData
  allReturned, \* what generateAllCitiesData returned: << >> until it has
  normalPc,  \* where a stand-alone randomNormal call stands: "idle", "u", "v"
  normalSeed, \* the seed field of the LCG it is given
  uDraw, vDraw, \* let u, v
  drawsMade, \* the rng.next() calls the call has made
  zerosDiscarded, \* how many of them returned exactly 0
  normalValue, \* what the call returned: << >> until it has
  normalCalls, \* the randomNormal calls still to be made
  lagsGiven, \* the lags argument of calculateLagCorrelations
  aqiLagResults, \* what calculateLagCorrelations returned: << >> until called
  status,    \* App's status: "IDLE", "LOADING", "SUCCESS", "ERROR"
  result,    \* App's result: << >> for null, else <<[location, currentAQI, request]>>
  errorMsg,  \* App's errorMsg: [text, request], request the analysis whose failure it reports (0: none)
  location,  \* App's location (the text of the search box)
  userProfile, \* App's userProfile: [conditions, threshold]
  aqiHistory, \* App's aqiHistory: records [time, aqi]
  historyLocationRef, \* historyLocationRef.current
  recentSearches, \* App's recentSearches
  storedHistory, \* localStorage's aeroPulseHistory: << >> when absent, else <<array>>
  storedRecent, \* localStorage's aeroPulseRecentSearches, likewise
  inFlight,  \* the analyses awaiting an answer: [id, loc, kind, phase]
  issued,    \* the analyses begun since the page was loaded: [kind, outcome] each
  ticks,     \* the clock: the minutes new Date() has advanced by
  lastAdded, \* the location addToRecentSearches last put in the list: << >> when none since the list was emptied
  lastLoc,   \* the loc of the latest updateHistory call: "" before the first
  runLength  \* how many of the latest updateHistory calls in a row had that loc

genVars == <<zone, limit, callsLeft, pc, cityName, hash, i, rng, p, current, rawData, data, results>>

lcgVars == <<lcg, last, drawn>>

airVars == <<reading, category, index>>

statVars == <<x, y, r, rSwapped, dataset, regression, lagResults, airVars>>

allVars == <<allData, forEachIndex, allReturned>>

normalVars ==
  <<normalPc, normalSeed, uDraw, vDraw, drawsMade, zerosDiscarded, normalValue, normalCalls>>

lagVars == <<lagsGiven, aqiLagResults>>

appVars ==
  <<status, result, errorMsg, location, userProfile, aqiHistory, historyLocationRef, recentSearches,
    storedHistory, storedRecent, inFlight, issued, ticks, lastAdded, lastLoc, runLength>>

laterVars == <<lagVars, appVars>>

otherVars == <<normalVars, laterVars>>

vars == <<genVars, lcgVars, statVars, allVars, otherVars>>

MaxDays == 4

MaxCalls == 2

MaxDraws == 5

MaxLen == 3

DateDays == 100

start == DateParse(2019, 1, 1)

end == DateParse(2024, 12, 31)

MaxIterations == 4096

RECURSIVE DayLoopFrom(_, _, _)
\* while (current <= end) { ...; current.setDate(current.getDate() + 1) }
\* from current = t for at most n iterations (the first half of them, then
\* the rest): where current stands then and the iterations made
DayLoopFrom(zn, t, n) ==
  IF n = 1
  THEN (IF t <= end THEN [current |-> SetDateNextDay(zn, t), iterations |-> 1]
        ELSE [current |-> t, iterations |-> 0])
  ELSE Only({Only({[current |-> rest.current, iterations |-> half.iterations + rest.iterations] :
                     rest \in {DayLoopFrom(zn, half.current, n - n \div 2)}}) :
               half \in {DayLoopFrom(zn, t, n \div 2)}})

\* the names the calls are made with: known cities, App's "Default", the
\* empty string and a name Object.prototype has a member for
RunNames == {"Delhi", "Hyderabad", "Pune", "Default", "", "constructor"}

DateNames == {"Default", "constructor"}

RunZones == {"UTC", "NewYork"}

IdleAllCities == allData = << >> /\ forEachIndex = 0 /\ allReturned = << >>

IdleGenerator ==
  /\ IdleAllCities
  /\ pc = "idle"
  /\ cityName = ""
  /\ hash = FZero
  /\ i = 0
  /\ rng = FZero
  /\ p = baseProfiles["Delhi"]
  /\ current = start
  /\ rawData = << >>
  /\ data = << >>
  /\ results = << >>

IdleNormal ==
  /\ normalPc = "idle"
  /\ normalSeed = FZero
  /\ uDraw = FZero
  /\ vDraw = FZero
  /\ drawsMade = 0
  /\ zerosDiscarded = 0
  /\ normalValue = << >>
  /\ normalCalls = 0

IdleLags == lagsGiven = << >> /\ aqiLagResults = << >>

\* setErrorMsg('')
NoError == [text |-> "", request |-> 0]

\* the state of App before its first effect ran, with an empty localStorage
IdleApp ==
  /\ status = "IDLE"
  /\ result = << >>
  /\ errorMsg = NoError
  /\ location = ""
  /\ userProfile = [conditions |-> << >>, threshold |-> 100]
  /\ aqiHistory = << >>
  /\ historyLocationRef = ""
  /\ recentSearches = << >>
  /\ storedHistory = << >>
  /\ storedRecent = << >>
  /\ inFlight = {}
  /\ issued = << >>
  /\ ticks = 0
  /\ lastAdded = << >>
  /\ lastLoc = ""
  /\ runLength = 0

IdleLater == IdleLags /\ IdleApp

IdleOthers == IdleNormal /\ IdleLater

IdleLCG == lcg = FZero /\ last = << >> /\ drawn = 0

IdleAnalysis == dataset = << >> /\ regression = << >> /\ lagResults = << >>

IdleAir == reading = 0 /\ category = << >> /\ index = << >>

IdleStatistics == x = << >> /\ y = << >> /\ r = << >> /\ rSwapped = << >> /\ IdleAnalysis /\ IdleAir

\* generateSyntheticCityData(name) is entered
Call(name) ==
  /\ pc = "idle"
  /\ callsLeft > 0
  /\ callsLeft' = callsLeft - 1
  /\ cityName' = name
  /\ hash' = FZero
  /\ i' = 0
  /\ rawData' = << >>
  /\ data' = << >>
  /\ pc' = "hash"
  /\ UNCHANGED <<otherVars, allVars, zone, limit, rng, p, current, results, lcgVars, statVars>>

\* one iteration of the hash loop
HashStep ==
  /\ pc = "hash"
  /\ i < NameLength(cityName)
  /\ hash' = HashStepValue(hash, charCodeAt(cityName, i))
  /\ i' = i + 1
  /\ UNCHANGED <<otherVars, allVars, zone, limit, callsLeft, pc, cityName, rng, p, current, rawData, data, results,
                 lcgVars, statVars>>

\* the hash loop is left: the generator is carried over from the call before
SetupSharedGenerator ==
  /\ pc = "hash"
  /\ i >= NameLength(cityName)
  /\ rng' = IF results = << >> THEN FAbs(hash) ELSE rng
  /\ p' = ResolveProfile(cityName)
  /\ current' = start
  /\ pc' = "days"
  /\ UNCHANGED <<otherVars, allVars, zone, limit, callsLeft, cityName, hash, i, rawData, data, results, lcgVars, statVars>>

\* the hash loop is left: new LCG(Math.abs(hash)), the profile, the dates
Setup ==
  /\ pc = "hash"
  /\ i >= NameLength(cityName)
  /\ rng' = FAbs(hash)
  /\ p' = ResolveProfile(cityName)
  /\ current' = start
  /\ pc' = "days"
  /\ UNCHANGED <<otherVars, allVars, zone, limit, callsLeft, cityName, hash, i, rawData, data, results, lcgVars, statVars>>

\* while (current <= end), as far as the call is followed
InDayLoop == current <= end /\ (limit = 0 \/ Len(rawData) < limit)

\* one iteration of the day loop
DayStep ==
  /\ pc = "days"
  /\ InDayLoop
  /\ \E draws \in {NormalDraws(NoiseDeviations(p), rng)} :
       /\ rawData' = Append(rawData, RawDay(p, zone, current, draws.values))
       /\ rng' = draws.seed
  /\ current' = SetDateNextDay(zone, current)
  /\ UNCHANGED <<otherVars, allVars, zone, limit, callsLeft, pc, cityName, hash, i, p, data, results, lcgVars, statVars>>

\* one iteration of the day loop, the date of the record only
DayStepDates ==
  /\ pc = "days"
  /\ InDayLoop
  /\ rawData' = Append(rawData, [dateObj |-> current])
  /\ current' = SetDateNextDay(zone, current)
  /\ UNCHANGED <<otherVars, allVars, zone, limit, callsLeft, pc, cityName, hash, i, rng, p, data, results,
                 lcgVars, statVars>>

\* the day loop is left
DaysDone ==
  /\ pc = "days"
  /\ ~InDayLoop
  /\ i' = 0
  /\ pc' = "health"
  /\ UNCHANGED <<otherVars, allVars, zone, limit, callsLeft, cityName, hash, rng, p, current, rawData, data, results,
                 lcgVars, statVars>>

\* one iteration of the health loop
HealthStep ==
  /\ pc = "health"
  /\ i < Len(rawData)
  /\ \E noise \in {randomNormal(0, Lit(4, 1), rng)} :
       /\ data' = Append(data, HealthDay(cityName, zone, rawData, i, noise.value))
       /\ rng' = noise.seed
  /\ i' = i + 1
  /\ UNCHANGED <<otherVars, allVars, zone, limit, callsLeft, pc, cityName, hash, p, current, rawData, results,
                 lcgVars, statVars>>

\* one iteration of the health loop, the city and the date of the record only
HealthStepDates ==
  /\ pc = "health"
  /\ i < Len(rawData)
  /\ data' = Append(data, [city |-> cityName, date |-> ISODate(rawData[i + 1].dateObj)])
  /\ i' = i + 1
  /\ UNCHANGED <<otherVars, allVars, zone, limit, callsLeft, pc, cityName, hash, rng, p, current, rawData, results,
                 lcgVars, statVars>>

\* return data
Return ==
  /\ forEachIndex = 0
  /\ pc = "health"
  /\ i >= Len(rawData)
  /\ results' = Append(results, [city |-> cityName, data |-> data])
  /\ pc' = "idle"
  /\ UNCHANGED <<otherVars, allVars, zone, limit, callsLeft, cityName, hash, i, rng, p, current, rawData, data,
                 lcgVars, statVars>>

\* calls of the generator followed for their first MaxDays days, every field
Init ==
  /\ zone \in RunZones
  /\ limit = MaxDays
  /\ callsLeft = MaxCalls
  /\ IdleGenerator
  /\ IdleOthers
  /\ IdleLCG
  /\ IdleStatistics

Next ==
  \/ \E name \in RunNames : Call(name)
  \/ HashStep
  \/ Setup
  \/ DayStep
  \/ DaysDone
  \/ HealthStep
  \/ Return

Spec == Init /\ [][Next]_vars

\* one call of the generator followed to its end date or for its first
\* DateDays days, the dates only
InitDates ==
  /\ zone \in DOMAIN Zones
  /\ limit \in {0, DateDays}
  /\ callsLeft = 1
  /\ IdleGenerator
  /\ IdleOthers
  /\ IdleLCG
  /\ IdleStatistics

NextDates ==
  \/ \E name \in DateNames : Call(name)
  \/ HashStep
  \/ Setup
  \/ DayStepDates
  \/ DaysDone
  \/ HealthStepDates
  \/ Return

SpecDates == InitDates /\ [][NextDates]_vars

-----------------------------------------------------------------------------
(* generateAllCitiesData: CITIES.forEach around generateSyntheticCityData.  *)

\* generateAllCitiesData() is entered: allData = [], the callback for the
\* first city enters generateSyntheticCityData
CallAll ==
  /\ pc = "idle"
  /\ forEachIndex = 0
  /\ allReturned = << >>
  /\ allData' = << >>
  /\ forEachIndex' = 1
  /\ cityName' = CITIES[1]
  /\ hash' = FZero
  /\ i' = 0
  /\ rawData' = << >>
  /\ data' = << >>
  /\ pc' = "hash"
  /\ UNCHANGED <<otherVars, zone, limit, callsLeft, rng, p, current, results, allReturned, lcgVars, statVars>>

\* the call made by the callback returns: allData = allData.concat(...), and
\* the callback for the next city enters generateSyntheticCityData
NextCity ==
  /\ forEachIndex > 0
  /\ forEachIndex < Len(CITIES)
  /\ pc = "health"
  /\ i >= Len(rawData)
  /\ allData' = allData \o data
  /\ forEachIndex' = forEachIndex + 1
  /\ cityName' = CITIES[forEachIndex + 1]
  /\ hash' = FZero
  /\ i' = 0
  /\ rawData' = << >>
  /\ data' = << >>
  /\ pc' = "hash"
  /\ UNCHANGED <<otherVars, zone, limit, callsLeft, rng, p, current, results, allReturned, lcgVars, statVars>>

\* the call made by the callback for the last city returns: the last
\* concat, return allData
ReturnAll ==
  /\ forEachIndex = Len(CITIES)
  /\ pc = "health"
  /\ i >= Len(rawData)
  /\ allData' = allData \o data
  /\ allReturned' = <<allData \o data>>
  /\ forEachIndex' = 0
  /\ pc' = "idle"
  /\ UNCHANGED <<otherVars, zone, limit, callsLeft, cityName, hash, i, rng, p, current, rawData, data, results,
                 lcgVars, statVars>>

AllCitiesZones == {"UTC", "SaoPaulo"}

\* generateAllCitiesData and one call of generateSyntheticCityData for a
\* city of the list, in either order, each call followed for its first
\* MaxDays days
InitAllCities ==
  /\ zone \in AllCitiesZones
  /\ limit = MaxDays
  /\ callsLeft = 1
  /\ IdleGenerator
  /\ IdleOthers
  /\ IdleLCG
  /\ IdleStatistics

NextAllCities ==
  \/ \E k \in 1..Len(CITIES) : Call(CITIES[k])
  \/ CallAll
  \/ HashStep
  \/ Setup
  \/ DayStep
  \/ DaysDone
  \/ HealthStep
  \/ Return
  \/ NextCity
  \/ ReturnAll

SpecAllCities == InitAllCities /\ [][NextAllCities]_vars

-----------------------------------------------------------------------------
(* A stand-alone LCG and its next() calls.                                 *)

\* seeds in [0, 2^32): the smallest and the largest, the one next() takes
\* to 0, and the seeds the generator derives from names
SeedSamples ==
  {FZero, FFromInt(1), FFromInt(2), FFromInt(42), FFromInt(12345), FFromInt(634785765),
   FFromInt(1664525), FFromInt(1013904223), FFromInt(2147483647),
   FNorm(1, TwoTo31, 0), FNorm(1, BSub(TwoTo32, <<1>>), 0), FNorm(1, BSub(TwoTo32, <<2>>), 0),
   FNorm(1, BMulSmall(BFromInt(1500000001), 2), 0), FNorm(1, BMulSmall(BFromInt(1234567891), 3), 0)}
  \cup {SeedOf(name) : name \in {"Delhi", "Mumbai", "Kolkata", "Bengaluru", "Chennai", "Pune",
                                 "Aurangabad", "Default", "constructor"}}

\* rng.next()
Draw ==
  /\ drawn < MaxDraws
  /\ LET n == LCGNext(lcg)
     IN  /\ lcg' = n.seed
         /\ last' = [before |-> lcg, value |-> n.value]
  /\ drawn' = drawn + 1
  /\ UNCHANGED <<otherVars, allVars, genVars, statVars>>

InitLCG ==
  /\ zone = "UTC"
  /\ limit = 0
  /\ callsLeft = 0
  /\ IdleGenerator
  /\ IdleOthers
  /\ lcg \in SeedSamples
  /\ last = << >>
  /\ drawn = 0
  /\ IdleStatistics

NextLCG == Draw

SpecLCG == InitLCG /\ [][NextLCG]_vars

-----------------------------------------------------------------------------
(* pearsonCorrelation on two series.                                       *)

SampleValues == {FZero, FFromInt(1), FDec(1, 10)}

Series == UNION {[1..n -> SampleValues] : n \in 0..MaxLen}

\* pearsonCorrelation(x, y)
Correlate ==
  /\ r = << >>
  /\ r' = <<pearsonCorrelation(x, y)>>
  /\ UNCHANGED <<otherVars, allVars, genVars, lcgVars, airVars, x, y, rSwapped, dataset, regression, lagResults>>

\* pearsonCorrelation(y, x), called after pearsonCorrelation(x, y)
CorrelateSwapped ==
  /\ r # << >>
  /\ rSwapped = << >>
  /\ rSwapped' = <<pearsonCorrelation(y, x)>>
  /\ UNCHANGED <<otherVars, allVars, genVars, lcgVars, airVars, x, y, r, dataset, regression, lagResults>>

InitPearson ==
  /\ zone = "UTC"
  /\ limit = 0
  /\ callsLeft = 0
  /\ IdleGenerator
  /\ IdleOthers
  /\ IdleLCG
  /\ x \in Series
  /\ y \in Series
  /\ r = << >>
  /\ rSwapped = << >>
  /\ IdleAnalysis
  /\ IdleAir

NextPearson == Correlate \/ CorrelateSwapped

SpecPearson == InitPearson /\ [][NextPearson]_vars

-----------------------------------------------------------------------------
(* The analysis routines on a dataset.                                     *)

MaxPoints == 5

\* records as the generator stores them (the fields the routines read)
SampleRecords ==
  {[aqi |-> FFromInt(50), symptomSeverity |-> FDec(18, 10), pm2_5 |-> FFromInt(12),
    no2 |-> FDec(305, 10), o3 |-> FDec(201, 10)],
   [aqi |-> FFromInt(197), symptomSeverity |-> FDec(22, 10), pm2_5 |-> FFromInt(75),
    no2 |-> FDec(461, 10), o3 |-> FDec(284, 10)],
   [aqi |-> FFromInt(112), symptomSeverity |-> FFromInt(10), pm2_5 |-> FFromInt(40),
    no2 |-> FDec(305, 10), o3 |-> FFromInt(17)]}

\* datasets of up to MaxPoints records: every choice of records for the
\* first days, repeated from then on
Datasets ==
  {[k \in 1..n |-> first[((k - 1) % Cardinality(SampleRecords)) + 1]] :
     n \in 0..MaxPoints, first \in [1..Cardinality(SampleRecords) -> SampleRecords]}

\* calculateRegressionAnalysis(data)
Regress ==
  /\ regression = << >>
  /\ regression' = <<calculateRegressionAnalysis(dataset)>>
  /\ UNCHANGED <<otherVars, allVars, genVars, lcgVars, airVars, x, y, r, rSwapped, dataset, lagResults>>

\* the pollutants CorrelationAnalysis asks for
Pollutants == <<"pm2_5", "no2", "o3">>

\* calculatePollutantLagCorrelations(data, ['pm2_5', 'no2', 'o3'], LAGS)
PollutantLags ==
  /\ lagResults = << >>
  /\ lagResults' = <<calculatePollutantLagCorrelations(dataset, Pollutants, LAGS)>>
  /\ UNCHANGED <<otherVars, allVars, genVars, lcgVars, airVars, x, y, r, rSwapped, dataset, regression>>

InitAnalysis ==
  /\ zone = "UTC"
  /\ limit = 0
  /\ callsLeft = 0
  /\ IdleGenerator
  /\ IdleOthers
  /\ IdleLCG
  /\ x = << >> /\ y = << >> /\ r = << >> /\ rSwapped = << >>
  /\ dataset \in Datasets
  /\ regression = << >>
  /\ lagResults = << >>
  /\ IdleAir

NextAnalysis == Regress \/ PollutantLags

SpecAnalysis == InitAnalysis /\ [][NextAnalysis]_vars

-----------------------------------------------------------------------------
(* The PM2.5 bands and the AQI conversion on a concentration.              *)

MaxPMSteps == 60

\* PM2.5 concentrations: the multiples of 5 up to 5 * MaxPMSteps and the
\* bounds 12, 35.4 and 35.5 of the AQI conversion, each with the values one
\* ten-thousandth below and above it, and NaN
PMReadings ==
  {base + d : base \in {5 * k * Scale : k \in 0..MaxPMSteps}
                       \cup {Lit(12, 1), Lit(354, 10), Lit(355, 10)},
              d \in {-1, 0, 1}}
    \cup {NaN}

\* getPM25Category(reading)
Categorise ==
  /\ category = << >>
  /\ category' = <<getPM25Category(reading)>>
  /\ UNCHANGED <<otherVars, allVars, genVars, lcgVars, x, y, r, rSwapped, dataset, regression, lagResults, reading, index>>

\* the if / else if / else that sets aqi in the health loop
ConvertAQI ==
  /\ index = << >>
  /\ index' = <<AQIOf(reading)>>
  /\ UNCHANGED <<otherVars, allVars, genVars, lcgVars, x, y, r, rSwapped, dataset, regression, lagResults, reading,
                 category>>

InitAirQuality ==
  /\ zone = "UTC"
  /\ limit = 0
  /\ callsLeft = 0
  /\ IdleGenerator
  /\ IdleOthers
  /\ IdleLCG
  /\ x = << >> /\ y = << >> /\ r = << >> /\ rSwapped = << >>
  /\ IdleAnalysis
  /\ reading \in PMReadings
  /\ category = << >>
  /\ index = << >>

NextAirQuality == Categorise \/ ConvertAQI

SpecAirQuality == InitAirQuality /\ [][NextAirQuality]_vars

-----------------------------------------------------------------------------
(* A stand-alone randomNormal(mean, stdDev, rng) and its two loops, one     *)
(* rng.next() at a time.                                                   *)

MaxNormalCalls == 3

\* the seeds of SeedSamples, and the seeds from which the second and the
\* third next() return 0
NormalSeeds ==
  SeedSamples \cup {FNorm(1, BMulSmall(BFromInt(2075361679), 2), 0), FFromInt(1869465083)}

NormalDeviations == {Lit(5, 1), Lit(15, 10)}

\* let u = 0, v = 0
CallNormal ==
  /\ normalPc = "idle"
  /\ normalCalls > 0
  /\ normalCalls' = normalCalls - 1
  /\ normalPc' = "u"
  /\ uDraw' = FZero
  /\ vDraw' = FZero
  /\ drawsMade' = 0
  /\ zerosDiscarded' = 0
  /\ normalValue' = << >>
  /\ UNCHANGED <<normalSeed, genVars, lcgVars, statVars, allVars, laterVars>>

\* u = rng.next(), made once whatever it returns
DrawUOnce ==
  /\ normalPc = "u"
  /\ \E n \in {LCGNext(normalSeed)} :
       /\ uDraw' = n.value
       /\ normalSeed' = n.seed
       /\ zerosDiscarded' = zerosDiscarded
  /\ drawsMade' = drawsMade + 1
  /\ normalPc' = "v"
  /\ UNCHANGED <<vDraw, normalValue, normalCalls, genVars, lcgVars, statVars, allVars, laterVars>>

\* while (u === 0) u = rng.next(): the test holds, the body runs
DrawU ==
  /\ normalPc = "u"
  /\ FIsZero(uDraw)
  /\ \E n \in {LCGNext(normalSeed)} :
       /\ uDraw' = n.value
       /\ normalSeed' = n.seed
       /\ zerosDiscarded' = zerosDiscarded + (IF FIsZero(n.value) THEN 1 ELSE 0)
  /\ drawsMade' = drawsMade + 1
  /\ UNCHANGED <<normalPc, vDraw, normalValue, normalCalls, genVars, lcgVars, statVars, allVars, laterVars>>

\* while (u === 0): the test fails, the loop of v is next
DoneU ==
  /\ normalPc = "u"
  /\ ~FIsZero(uDraw)
  /\ normalPc' = "v"
  /\ UNCHANGED <<normalSeed, uDraw, vDraw, drawsMade, zerosDiscarded, normalValue, normalCalls,
                 genVars, lcgVars, statVars, allVars, laterVars>>

\* while (v === 0) v = rng.next(): the test holds, the body runs
DrawV ==
  /\ normalPc = "v"
  /\ FIsZero(vDraw)
  /\ \E n \in {LCGNext(normalSeed)} :
       /\ vDraw' = n.value
       /\ normalSeed' = n.seed
       /\ zerosDiscarded' = zerosDiscarded + (IF FIsZero(n.value) THEN 1 ELSE 0)
  /\ drawsMade' = drawsMade + 1
  /\ UNCHANGED <<normalPc, uDraw, normalValue, normalCalls, genVars, lcgVars, statVars, allVars, laterVars>>

\* while (v === 0): the test fails; z is computed from u and v and
\* mean + z * stdDev returned
ReturnNormal ==
  /\ normalPc = "v"
  /\ ~FIsZero(vDraw)
  /\ \E stdDev \in NormalDeviations :
       normalValue' = <<[u |-> uDraw, v |-> vDraw,
                        value |-> BoxMuller(0, stdDev, uDraw,
                                            [value |-> vDraw, seed |-> normalSeed]).value]>>
  /\ normalPc' = "idle"
  /\ UNCHANGED <<normalSeed, uDraw, vDraw, drawsMade, zerosDiscarded, normalCalls,
                 genVars, lcgVars, statVars, allVars, laterVars>>

InitNormal ==
  /\ zone = "UTC"
  /\ limit = 0
  /\ callsLeft = 0
  /\ IdleGenerator
  /\ IdleLCG
  /\ IdleStatistics
  /\ IdleLater
  /\ normalPc = "idle"
  /\ normalSeed \in NormalSeeds
  /\ uDraw = FZero
  /\ vDraw = FZero
  /\ drawsMade = 0
  /\ zerosDiscarded = 0
  /\ normalValue = << >>
  /\ normalCalls = MaxNormalCalls

NextNormal == CallNormal \/ DrawU \/ DoneU \/ DrawV \/ ReturnNormal

SpecNormal == InitNormal /\ [][NextNormal]_vars

-----------------------------------------------------------------------------
(* calculateLagCorrelations on a dataset and a list of lags.               *)

\* lists of lags: the dashboard's, and lists out of order, with a lag
\* twice, and empty
LagLists == {LAGS, << >>, <<3, 0>>, <<7, 1, 1, 14>>, <<2>>}

\* calculateLagCorrelations(data, lags)
AqiLags ==
  /\ aqiLagResults = << >>
  /\ aqiLagResults' = <<calculateLagCorrelations(dataset, lagsGiven)>>
  /\ UNCHANGED <<lagsGiven, genVars, lcgVars, statVars, allVars, normalVars, appVars>>

InitAqiLags ==
  /\ zone = "UTC"
  /\ limit = 0
  /\ callsLeft = 0
  /\ IdleGenerator
  /\ IdleLCG
  /\ IdleNormal
  /\ x = << >> /\ y = << >> /\ r = << >> /\ rSwapped = << >>
  /\ dataset \in Datasets
  /\ regression = << >>
  /\ lagResults = << >>
  /\ IdleAir
  /\ lagsGiven \in LagLists
  /\ aqiLagResults = << >>
  /\ IdleApp

NextAqiLags == AqiLags

SpecAqiLags == InitAqiLags /\ [][NextAqiLags]_vars

-----------------------------------------------------------------------------
(* App: the recent searches.  The handlers below leave out the state they  *)
(* only write and nothing here reads: showHistory, lastUpdated, forecast,  *)
(* isForecastLoading, isRefreshing and analyticsData (the generator above). *)

\* the char codes of the texts the model searches for
SearchCharCodes ==
      CharCodes
   @@ ("delhi" :> <<100, 101, 108, 104, 105>>)
   @@ ("DELHI" :> <<68, 69, 76, 72, 73>>)
   @@ ("Goa" :> <<71, 111, 97>>)
   @@ ("Current Location" :> <<67, 117, 114, 114, 101, 110, 116, 32, 76, 111, 99, 97, 116, 105, 111, 110>>)
   @@ ("28.6, 77.2" :> <<50, 56, 46, 54, 44, 32, 55, 55, 46, 50>>)
   @@ ("Pune, India" :> <<80, 117, 110, 101, 44, 32, 73, 110, 100, 105, 97>>)
   @@ ("All Cities" :> <<65, 108, 108, 32, 67, 105, 116, 105, 101, 115>>)

\* what is typed, picked or passed as a location: cities, a city in other
\* letter cases, the label of the geolocated place, coordinates, a
\* qualified place name and nothing
SearchTexts ==
  {"Delhi", "delhi", "DELHI", "Mumbai", "Pune", "Kolkata", "Chennai", "Goa", "",
   "Current Location", "28.6, 77.2", "Pune, India"}

\* text.toLowerCase(), as char codes (the texts are ASCII)
toLowerCase(text) ==
  [pos \in 1..Len(SearchCharCodes[text]) |->
     IF SearchCharCodes[text][pos] >= 65 /\ SearchCharCodes[text][pos] <= 90
     THEN SearchCharCodes[text][pos] + 32
     ELSE SearchCharCodes[text][pos]]

\* text.includes(',')
includesComma(text) == \E pos \in 1..Len(SearchCharCodes[text]) : SearchCharCodes[text][pos] = 44

\* addToRecentSearches with a filter that compares the texts as they are
addToRecentSearchesExactly(prev, loc) ==
  IF loc = "" \/ loc = "Current Location" \/ includesComma(loc) THEN prev
  ELSE Slice(<<loc>> \o SelectSeq(prev, LAMBDA item : item # loc), 0, 5)

\* the list addToRecentSearches(loc) leaves when the list was prev
addToRecentSearches(prev, loc) ==
  IF loc = "" \/ loc = "Current Location" \/ includesComma(loc) THEN prev
  ELSE Slice(<<loc>> \o SelectSeq(prev, LAMBDA item : toLowerCase(item) # toLowerCase(loc)), 0, 5)

\* addToRecentSearches(loc)
RecentAdded(loc) ==
  /\ recentSearches' = addToRecentSearches(recentSearches, loc)
  /\ IF loc = "" \/ loc = "Current Location" \/ includesComma(loc)
     THEN UNCHANGED <<storedRecent, lastAdded>>
     ELSE /\ storedRecent' = <<recentSearches'>>
          /\ lastAdded' = <<loc>>

\* addToRecentSearches(loc), called on its own
AddRecent(loc) ==
  /\ RecentAdded(loc)
  /\ UNCHANGED <<status, result, errorMsg, location, userProfile, aqiHistory, historyLocationRef,
                 storedHistory, inFlight, issued, ticks, lastLoc, runLength>>
  /\ UNCHANGED <<genVars, lcgVars, statVars, allVars, normalVars, lagVars>>

\* clearRecentSearches(e)
ClearRecent ==
  /\ recentSearches' = << >>
  /\ storedRecent' = << >>
  /\ lastAdded' = << >>
  /\ UNCHANGED <<status, result, errorMsg, location, userProfile, aqiHistory, historyLocationRef,
                 storedHistory, inFlight, issued, ticks, lastLoc, runLength>>
  /\ UNCHANGED <<genVars, lcgVars, statVars, allVars, normalVars, lagVars>>

InitRecent ==
  /\ zone = "UTC"
  /\ limit = 0
  /\ callsLeft = 0
  /\ IdleGenerator
  /\ IdleLCG
  /\ IdleStatistics
  /\ IdleNormal
  /\ IdleLags
  /\ IdleApp

NextRecent == (\E loc \in SearchTexts : AddRecent(loc)) \/ ClearRecent

SpecRecent == InitRecent /\ [][NextRecent]_vars

-----------------------------------------------------------------------------
(* App: the AQI history.                                                   *)

MaxTicks == 11

\* the readings the service reports
AQIReadings == {42, 168}

HistoryLocations == {"Delhi", "Mumbai"}

\* new Date().toLocaleTimeString([], {hour: '2-digit', minute: '2-digit'})
\* when the clock stands at minute now
TimeOfDay(now) == [hour |-> (now \div 60) % 24, minute |-> now % 60]

\* the array the updater of updateHistory(newAQI, loc) returns for prev
\* when historyLocationRef.current is ref and the clock stands at now
updateHistory(prev, ref, newAQI, loc, now) ==
  Only({IF Len(newHistory) > 10 THEN SliceFrom(newHistory, Len(newHistory) - 10) ELSE newHistory :
          newHistory \in {(IF ref # "" /\ ref # loc THEN << >> ELSE prev)
                             \o <<[time |-> TimeOfDay(now), aqi |-> newAQI]>>}})

\* updateHistory(newAQI, loc), a minute after the call before it
HistoryUpdated(newAQI, loc) ==
  /\ ticks' = ticks + 1
  /\ aqiHistory' = updateHistory(aqiHistory, historyLocationRef, newAQI, loc, ticks')
  /\ storedHistory' = <<aqiHistory'>>
  /\ historyLocationRef' = loc
  /\ lastLoc' = loc
  /\ runLength' = IF lastLoc = loc THEN runLength + 1 ELSE 1

\* updateHistory(newAQI, loc), called on its own
UpdateHistory(newAQI, loc) ==
  /\ ticks < MaxTicks
  /\ HistoryUpdated(newAQI, loc)
  /\ UNCHANGED <<status, result, errorMsg, location, userProfile, recentSearches, storedRecent,
                 inFlight, issued, lastAdded>>
  /\ UNCHANGED <<genVars, lcgVars, statVars, allVars, normalVars, lagVars>>

\* the page is loaded again: App is mounted with its initial state and its
\* first effect reads the profile, the history and the recent searches
\* from localStorage (JSON.parse of what JSON.stringify wrote); the
\* requests of the page before are gone
Reload ==
  /\ status' = "IDLE"
  /\ result' = << >>
  /\ errorMsg' = NoError
  /\ location' = ""
  /\ historyLocationRef' = ""
  /\ aqiHistory' = IF storedHistory = << >> THEN << >> ELSE storedHistory[1]
  /\ recentSearches' = IF storedRecent = << >> THEN << >> ELSE storedRecent[1]
  /\ inFlight' = {}
  /\ issued' = << >>
  /\ UNCHANGED <<userProfile, storedHistory, storedRecent, ticks, lastAdded, lastLoc, runLength>>
  /\ UNCHANGED <<genVars, lcgVars, statVars, allVars, normalVars, lagVars>>

InitHistory == InitRecent

NextHistory ==
  \/ \E newAQI \in AQIReadings, loc \in HistoryLocations : UpdateHistory(newAQI, loc)
  \/ Reload

SpecHistory == InitHistory /\ [][NextHistory]_vars

-----------------------------------------------------------------------------
(* App: the analyses.  An analysis is begun by a search (Enter in the      *)
(* search box, a recent search, the city dropdown, the refresh button), by *)
(* the 15-minute polling or by the geolocation button; analyzeAirQuality   *)
(* answers or fails later, in any order.                                   *)

MaxRequests == 3

\* what the search box holds when a search begins
AppLocations == {"Delhi", "Mumbai", "", "All Cities"}

\* !searchLoc.trim()
IsBlank(text) == \A pos \in 1..Len(SearchCharCodes[text]) : SearchCharCodes[text][pos] = 32

\* location.includes("Combined"): of the texts location takes here only
\* the one performAnalysis sets for "All Cities" has it
includesCombined(text) == text = "Pan-India Analysis (Combined)"

\* the analysis begun next
NewRequest(searchLoc, kind, phase) ==
  [id |-> Len(issued) + 1, loc |-> searchLoc, kind |-> kind, phase |-> phase]

Begun(req) ==
  /\ inFlight' = inFlight \cup {req}
  /\ issued' = Append(issued, [kind |-> req.kind, outcome |-> "pending"])

Settled(req, outcome) ==
  /\ inFlight' = inFlight \ {req}
  /\ issued' = [issued EXCEPT ![req.id].outcome = outcome]

\* setLocation(searchLoc) and performAnalysis(searchLoc) up to its await
Search(searchLoc) ==
  /\ Len(issued) < MaxRequests
  /\ IF IsBlank(searchLoc)
     THEN /\ location' = searchLoc
          /\ UNCHANGED <<status, errorMsg, result, inFlight, issued>>
     ELSE IF searchLoc = "All Cities"
     THEN /\ location' = "Pan-India Analysis (Combined)"
          /\ UNCHANGED <<status, errorMsg, result, inFlight, issued>>
     ELSE /\ location' = searchLoc
          /\ status' = "LOADING"
          /\ errorMsg' = NoError
          /\ result' = << >>
          /\ Begun(NewRequest(searchLoc, "search", "analysis"))
  /\ UNCHANGED <<userProfile, aqiHistory, historyLocationRef, recentSearches, storedHistory,
                 storedRecent, ticks, lastAdded, lastLoc, runLength>>
  /\ UNCHANGED <<genVars, lcgVars, statVars, allVars, normalVars, lagVars>>

\* handleCityDropdownChange for "All Cities"
SelectAllCities ==
  /\ location' = "All Cities"
  /\ result' = << >>
  /\ status' = "IDLE"
  /\ UNCHANGED <<errorMsg, inFlight, issued, userProfile, aqiHistory, historyLocationRef,
                 recentSearches, storedHistory, storedRecent, ticks, lastAdded, lastLoc, runLength>>
  /\ UNCHANGED <<genVars, lcgVars, statVars, allVars, normalVars, lagVars>>

\* the polling interval fires: performAnalysis(location, true) up to its await
BackgroundRefresh ==
  /\ Len(issued) < MaxRequests
  /\ status = "SUCCESS"
  /\ location # ""
  /\ ~includesCombined(location)
  /\ location # "All Cities"
  /\ Begun(NewRequest(location, "background", "analysis"))
  /\ UNCHANGED <<status, result, errorMsg, location, userProfile, aqiHistory, historyLocationRef,
                 recentSearches, storedHistory, storedRecent, ticks, lastAdded, lastLoc, runLength>>
  /\ UNCHANGED <<genVars, lcgVars, statVars, allVars, normalVars, lagVars>>

\* handleGeoLocate up to getCurrentPosition, in a browser with or without
\* navigator.geolocation
GeoLocate ==
  /\ Len(issued) < MaxRequests
  /\ \E supported \in BOOLEAN :
       IF supported
       THEN /\ status' = "LOADING"
            /\ errorMsg' = NoError
            /\ result' = << >>
            /\ Begun(NewRequest("Current Location", "geo", "position"))
       ELSE /\ errorMsg' = [text |-> "Geolocation is not supported by your browser.", request |-> 0]
            /\ UNCHANGED <<status, result, inFlight, issued>>
  /\ UNCHANGED <<location, userProfile, aqiHistory, historyLocationRef, recentSearches,
                 storedHistory, storedRecent, ticks, lastAdded, lastLoc, runLength>>
  /\ UNCHANGED <<genVars, lcgVars, statVars, allVars, normalVars, lagVars>>

\* the success callback of getCurrentPosition up to its await
PositionFound(req) ==
  /\ req \in inFlight
  /\ req.phase = "position"
  /\ inFlight' = (inFlight \ {req}) \cup {[req EXCEPT !.phase = "analysis"]}
  /\ UNCHANGED <<status, result, errorMsg, location, userProfile, aqiHistory, historyLocationRef,
                 recentSearches, storedHistory, storedRecent, issued, ticks, lastAdded, lastLoc,
                 runLength>>
  /\ UNCHANGED <<genVars, lcgVars, statVars, allVars, normalVars, lagVars>>

\* the error callback of getCurrentPosition
PositionDenied(req) ==
  /\ req \in inFlight
  /\ req.phase = "position"
  /\ status' = "IDLE"
  /\ errorMsg' = [text |-> "Unable to retrieve your location.", request |-> req.id]
  /\ Settled(req, "failed")
  /\ UNCHANGED <<result, location, userProfile, aqiHistory, historyLocationRef, recentSearches,
                 storedHistory, storedRecent, ticks, lastAdded, lastLoc, runLength>>
  /\ UNCHANGED <<genVars, lcgVars, statVars, allVars, normalVars, lagVars>>

\* performAnalysis after an answer of analyzeAirQuality, setting the status
\* for a background refresh as well
RespondSettingStatus(req, newAQI) ==
  /\ req \in inFlight
  /\ req.phase = "analysis"
  /\ req.kind # "geo"
  /\ result' = <<[location |-> req.loc, currentAQI |-> newAQI, request |-> req.id]>>
  /\ HistoryUpdated(newAQI, req.loc)
  /\ status' = "SUCCESS"
  /\ IF req.kind = "background"
     THEN UNCHANGED <<recentSearches, storedRecent, lastAdded>>
     ELSE RecentAdded(req.loc)
  /\ Settled(req, "ok")
  /\ UNCHANGED <<errorMsg, location, userProfile>>
  /\ UNCHANGED <<genVars, lcgVars, statVars, allVars, normalVars, lagVars>>

\* performAnalysis from the answer of analyzeAirQuality on: data has the
\* location asked for and the reading newAQI (and, for the properties
\* below, the number of the analysis it answers)
Respond(req, newAQI) ==
  /\ req \in inFlight
  /\ req.phase = "analysis"
  /\ req.kind # "geo"
  /\ result' = <<[location |-> req.loc, currentAQI |-> newAQI, request |-> req.id]>>
  /\ HistoryUpdated(newAQI, req.loc)
  /\ IF req.kind = "background"
     THEN UNCHANGED <<status, recentSearches, storedRecent, lastAdded>>
     ELSE /\ status' = "SUCCESS"
          /\ RecentAdded(req.loc)
  /\ Settled(req, "ok")
  /\ UNCHANGED <<errorMsg, location, userProfile>>
  /\ UNCHANGED <<genVars, lcgVars, statVars, allVars, normalVars, lagVars>>

\* performAnalysis when analyzeAirQuality fails: the catch block
Fail(req) ==
  /\ req \in inFlight
  /\ req.phase = "analysis"
  /\ req.kind # "geo"
  /\ IF req.kind = "background"
     THEN UNCHANGED <<status, errorMsg>>
     ELSE /\ status' = "ERROR"
          /\ errorMsg' = [text |-> "An unexpected error occurred.", request |-> req.id]
  /\ Settled(req, "failed")
  /\ UNCHANGED <<result, location, userProfile, aqiHistory, historyLocationRef, recentSearches,
                 storedHistory, storedRecent, ticks, lastAdded, lastLoc, runLength>>
  /\ UNCHANGED <<genVars, lcgVars, statVars, allVars, normalVars, lagVars>>

\* the geolocation callback from the answer of analyzeAirQuality on
RespondGeo(req, newAQI) ==
  /\ req \in inFlight
  /\ req.phase = "analysis"
  /\ req.kind = "geo"
  /\ result' = <<[location |-> req.loc, currentAQI |-> newAQI, request |-> req.id]>>
  /\ location' = "Current Location"
  /\ HistoryUpdated(newAQI, "Current Location")
  /\ status' = "SUCCESS"
  /\ Settled(req, "ok")
  /\ UNCHANGED <<errorMsg, userProfile, recentSearches, storedRecent, lastAdded>>
  /\ UNCHANGED <<genVars, lcgVars, statVars, allVars, normalVars, lagVars>>

\* the geolocation callback when analyzeAirQuality fails
FailGeo(req) ==
  /\ req \in inFlight
  /\ req.phase = "analysis"
  /\ req.kind = "geo"
  /\ status' = "ERROR"
  /\ errorMsg' = [text |-> "Failed to analyze location data.", request |-> req.id]
  /\ Settled(req, "failed")
  /\ UNCHANGED <<result, location, userProfile, aqiHistory, historyLocationRef, recentSearches,
                 storedHistory, storedRecent, ticks, lastAdded, lastLoc, runLength>>
  /\ UNCHANGED <<genVars, lcgVars, statVars, allVars, normalVars, lagVars>>

InitApp == InitRecent

NextApp ==
  \/ \E searchLoc \in AppLocations : Search(searchLoc)
  \/ SelectAllCities
  \/ BackgroundRefresh
  \/ GeoLocate
  \/ \E req \in inFlight : PositionFound(req)
  \/ \E req \in inFlight : PositionDenied(req)
  \/ \E req \in inFlight, newAQI \in AQIReadings : Respond(req, newAQI)
  \/ \E req \in inFlight : Fail(req)
  \/ \E req \in inFlight, newAQI \in AQIReadings : RespondGeo(req, newAQI)
  \/ \E req \in inFlight : FailGeo(req)

SpecApp == InitApp /\ [][NextApp]_vars

-----------------------------------------------------------------------------
(* App: the alert threshold of the profile and the personalized alert.     *)

\* what is typed into the threshold field of ProfileSettings, as char codes
ThresholdCharCodes ==
      ("" :> <<>>)
   @@ ("42" :> <<52, 50>>)
   @@ ("168" :> <<49, 54, 56>>)
   @@ ("100" :> <<49, 48, 48>>)
   @@ ("43" :> <<52, 51>>)
   @@ ("600" :> <<54, 48, 48>>)
   @@ ("-5" :> <<45, 53>>)
   @@ ("99.5" :> <<57, 57, 46, 53>>)
   @@ ("abc" :> <<97, 98, 99>>)

ThresholdTexts == DOMAIN ThresholdCharCodes

RECURSIVE DigitsValue(_, _)
\* the number the first count characters of digits spell
DigitsValue(digits, count) ==
  IF count = 0 THEN 0 ELSE DigitsValue(digits, count - 1) * 10 + (digits[count] - 48)

\* parseInt(text): an optional sign and the digits up to the first other
\* character, NaN without a digit (the texts have no leading blanks)
parseInt(text) ==
  LET typed  == ThresholdCharCodes[text]
      signed == typed # << >> /\ typed[1] \in {43, 45}
      digits == IF signed THEN Tail(typed) ELSE typed
      count  == CHOOSE d \in 0..Len(digits) :
                  /\ \A pos \in 1..d : digits[pos] >= 48 /\ digits[pos] <= 57
                  /\ d = Len(digits) \/ digits[d + 1] < 48 \/ digits[d + 1] > 57
  IN  IF count = 0 THEN NaN
      ELSE IF signed /\ typed[1] = 45 THEN -DigitsValue(digits, count)
      ELSE DigitsValue(digits, count)

\* the threshold of ProfileSettings after handleThresholdChange(text) when
\* it was before
handleThresholdChange(before, text) ==
  IF ~IsNaN(parseInt(text)) THEN MathMax(0, MathMin(500, parseInt(text)))
  ELSE IF text = "" THEN 0
  ELSE before

\* ProfileSettings is opened, text is typed into the threshold field and
\* Save Preferences is pressed: handleSave and App's saveProfile
SaveProfile(text) ==
  /\ userProfile' = [conditions |-> userProfile.conditions,
                     threshold |-> handleThresholdChange(userProfile.threshold, text)]
  /\ UNCHANGED <<status, result, errorMsg, location, aqiHistory, historyLocationRef,
                 recentSearches, storedHistory, storedRecent, inFlight, issued, ticks, lastAdded,
                 lastLoc, runLength>>
  /\ UNCHANGED <<genVars, lcgVars, statVars, allVars, normalVars, lagVars>>

\* whether PersonalizedAlert renders the alert
PersonalizedAlert(currentAQI, threshold) == ~(currentAQI < threshold)

\* whether the page shows the alert: the dashboard is rendered for a
\* result with status SUCCESS, and PersonalizedAlert within it
AlertShown ==
  /\ status = "SUCCESS"
  /\ result # << >>
  /\ PersonalizedAlert(result[1].currentAQI, userProfile.threshold)

InitAlert == InitRecent

NextAlert ==
  \/ \E text \in ThresholdTexts : SaveProfile(text)
  \/ \E searchLoc \in HistoryLocations : Search(searchLoc)
  \/ \E req \in inFlight, newAQI \in AQIReadings : Respond(req, newAQI)

SpecAlert == InitAlert /\ [][NextAlert]_vars

-----------------------------------------------------------------------------
(* Properties.                                                             *)

\* C1: two calls of generateSyntheticCityData with the same city name return
\* record sequences that are equal field by field at every index; nothing a
\* call leaves behind influences a later call.
C1_Determinism ==
  \A a, b \in 1..Len(results) :
    results[a].city = results[b].city => results[a].data = results[b].data

\* two calls with the same name have returned, each with records
C1_Witness ==
  \E a, b \in 1..Len(results) :
    /\ a < b
    /\ results[a].city = results[b].city
    /\ Len(results[a].data) = limit
    /\ Len(results[b].data) = limit

\* C2: a call returns one record per calendar day from 2019-01-01 through
\* 2024-12-31 in chronological order: 2,192 records, the first dated
\* 2019-01-01, the last dated 2024-12-31, each date one day after the
\* previous one.
C2_OneRecordPerDay ==
  \A k \in 1..Len(results) :
    LET returned == results[k].data
    IN  /\ limit = 0 => (Len(returned) = 2192 /\ returned[Len(returned)].date = 20241231)
        /\ returned[1].date = 20190101
        /\ \A j \in 1..(Len(returned) - 1) : returned[j + 1].date = NextISODate(returned[j].date)

\* C3: in every record produced, asthma + copd + bronchitis equals
\* admissions.
C3_SubCountSum ==
  \A k \in 1..Len(data) :
    LET total == NPlus(NPlus(data[k].asthma, data[k].copd), data[k].bronchitis)
    IN  ~IsNaN(total) /\ ~IsNaN(data[k].admissions) /\ total = data[k].admissions

\* C4: in every record produced, admissions is a non-negative integer and
\* each of asthma, copd and bronchitis is a non-negative integer that does
\* not exceed admissions.
C4_SubCountsWithinAdmissions ==
  \A k \in 1..Len(data) :
    /\ NLeq(0, data[k].admissions)
    /\ data[k].admissions % Scale = 0
    /\ \A count \in {data[k].asthma, data[k].copd, data[k].bronchitis} :
         NLeq(0, count) /\ count % Scale = 0 /\ NLeq(count, data[k].admissions)

\* C5: in every record produced the stored fields respect the clip bounds:
\* pm2_5 >= 2, pm10 >= 5, no2 >= 2, so2 >= 0.5, co >= 0.1, o3 >= 1,
\* 10 <= humidity <= 100 and 0.9 <= air_density <= 1.3.
C5_StoredFieldsWithinBounds ==
  \A k \in 1..Len(data) :
    /\ NLeq(Lit(2, 1), data[k].pm2_5)
    /\ NLeq(Lit(5, 1), data[k].pm10)
    /\ NLeq(Lit(2, 1), data[k].no2)
    /\ NLeq(Lit(5, 10), data[k].so2)
    /\ NLeq(Lit(1, 10), data[k].co)
    /\ NLeq(Lit(1, 1), data[k].o3)
    /\ NLeq(Lit(10, 1), data[k].humidity) /\ NLeq(data[k].humidity, Lit(100, 1))
    /\ NLeq(Lit(9, 10), data[k].air_density) /\ NLeq(data[k].air_density, Lit(13, 10))

\* C6: from a state s that is an integer in [0, 2^32), next() sets the state
\* to (s * 1664525 + 1013904223) mod 2^32 and returns state / 2^32; after any
\* number of calls the state is an integer in [0, 2^32) and every returned
\* value v satisfies 0 <= v < 1.
C6_LCGRecurrence ==
  /\ lcg.s = 1
  /\ FIsZero(lcg) \/ lcg.e >= 0
  /\ BCmp(FMagnitude(lcg), TwoTo32) < 0
  /\ last # << >> =>
       /\ FMagnitude(lcg) =
            BLow(BAdd(BMul(FMagnitude(last.before), BFromInt(1664525)), BFromInt(1013904223)), 32)
       /\ FMul(last.value, FNorm(1, TwoTo32, 0)) = lcg
       /\ FLeq(FZero, last.value)
       /\ FLess(last.value, FFromInt(1))

\* next() has been called more than once, the last time from a state whose
\* successor needs the reduction modulo 2^32
C6_Witness ==
  /\ drawn >= 2
  /\ last # << >>
  /\ BCmp(FMagnitude(last.before), BFromInt(100000)) > 0
  /\ FLess(FDec(1, 2), last.value)

\* C7: for every city name, the seed handed to the PRNG, the absolute value
\* of the rolling hash, is a non-negative integer that fits in 32 bits.
C7_SeedFitsIn32Bits ==
  (pc = "days" /\ rawData = << >>) =>
    /\ rng.s = 1
    /\ FIsZero(rng) \/ rng.e >= 0
    /\ BCmp(FMagnitude(rng), TwoTo32) < 0

\* C8: for a city name that is not a key of the base-profile table, the call
\* uses the Delhi profile, seeds the PRNG from the given name and returns
\* 2,192 records whose city field is the given name.
C8_UnknownNameUsesDelhi ==
  /\ (pc \in {"days", "health"} /\ cityName \notin DOMAIN baseProfiles) =>
       /\ p = baseProfiles["Delhi"]
       /\ rng = SeedOf(cityName)
  /\ \A k \in 1..Len(results) :
       results[k].city \notin DOMAIN baseProfiles =>
         /\ limit = 0 => Len(results[k].data) = 2192
         /\ \A j \in 1..Len(results[k].data) : results[k].data[j].city = results[k].city

\* C9: pearsonCorrelation(x, y) returns exactly 0 when x is empty, when x and
\* y have different lengths, and when either series has zero variance (all
\* its elements equal).
C9_ZeroForDegenerateInput ==
  (/\ r # << >>
   /\ \/ Len(x) = 0
      \/ Len(x) # Len(y)
      \/ \A a, b \in 1..Len(x) : x[a] = x[b]
      \/ \A a, b \in 1..Len(y) : y[a] = y[b])
    => FIsZero(r[1])

\* C10: for equal-length sequences x and y, pearsonCorrelation(x, y) equals
\* pearsonCorrelation(y, x).
C10_Symmetry ==
  (r # << >> /\ rSwapped # << >> /\ Len(x) = Len(y)) => r = rSwapped

\* both orders have been computed for two series that correlate
C10_Witness ==
  /\ r # << >>
  /\ rSwapped # << >>
  /\ Len(x) = Len(y)
  /\ x # y
  /\ ~FIsZero(r[1])

\* C11: for equal-length non-empty sequences x and y of non-zero variance,
\* pearsonCorrelation(x, y) lies in [-1, 1].
C11_CorrelationWithinUnitInterval ==
  (/\ r # << >>
   /\ Len(x) = Len(y)
   /\ Len(x) > 0
   /\ \E a, b \in 1..Len(x) : x[a] # x[b]
   /\ \E a, b \in 1..Len(y) : y[a] # y[b])
    => FLeq(FFromInt(-1), r[1]) /\ FLeq(r[1], FFromInt(1))

\* C12: calculateRegressionAnalysis(data) regresses symptomSeverity (y) on
\* aqi (x): for a non-empty dataset correlationCoefficient is
\* pearsonCorrelation(x, y), rSquared its square, slope is
\* sum((x - xMean)(y - yMean)) / sum((x - xMean)^2) (0 when that denominator
\* is 0) and intercept is yMean - slope * xMean; for an empty dataset all
\* four are 0.
C12_RegressionOfSeverityOnAqi ==
  regression # << >> =>
    LET aqis       == Column(dataset, "aqi")
        severities == Column(dataset, "symptomSeverity")
        sums       == PearsonLoop(aqis, severities)
        found      == regression[1]
    IN  IF Len(dataset) = 0
        THEN /\ FIsZero(found.slope) /\ FIsZero(found.intercept)
             /\ FIsZero(found.rSquared) /\ FIsZero(found.correlationCoefficient)
        ELSE /\ found.correlationCoefficient = pearsonCorrelation(aqis, severities)
             /\ found.rSquared = FMul(found.correlationCoefficient, found.correlationCoefficient)
             /\ found.slope = IF FIsZero(sums.denX) THEN FZero ELSE FDiv(sums.num, sums.denX)
             /\ found.intercept = FSub(mean(severities), FMul(found.slope, mean(aqis)))

\* the regression of a dataset whose aqi varies has been computed and has a
\* slope
C12_Witness ==
  /\ regression # << >>
  /\ Len(dataset) >= 3
  /\ ~FIsZero(regression[1].slope)
  /\ ~FIsZero(regression[1].correlationCoefficient)

\* C13: calculatePollutantLagCorrelations(data, pollutants, lags) returns
\* exactly one entry for each (pollutant, lag) pair with lag < data.length and
\* no entry for a pair with lag >= data.length; an empty dataset yields an
\* empty result.
C13_LagExclusion ==
  lagResults # << >> =>
    LET entries == lagResults[1]
    IN  /\ \A j \in 1..Len(Pollutants), k \in 1..Len(LAGS) :
             Cardinality({e \in 1..Len(entries) :
                            /\ entries[e].pollutant = Pollutants[j]
                            /\ entries[e].lagDays = LAGS[k]})
               = IF LAGS[k] < Len(dataset) THEN 1 ELSE 0
        /\ \A e \in 1..Len(entries) :
             /\ \E j \in 1..Len(Pollutants) : entries[e].pollutant = Pollutants[j]
             /\ \E k \in 1..Len(LAGS) : entries[e].lagDays = LAGS[k]
        /\ Len(dataset) = 0 => entries = << >>

\* a dataset of length 5 has been analysed: entries for the lags 0, 1 and 3
\* of each pollutant, none for 7 and 14
C13_Witness ==
  /\ lagResults # << >>
  /\ Len(dataset) = 5
  /\ Len(lagResults[1]) = 9
  /\ \A e \in 1..Len(lagResults[1]) : lagResults[1][e].lagDays \in {0, 1, 3}

\* C14: for every (pollutant, lag) pair with 0 <= lag < n = data.length, the
\* correlation reported is pearsonCorrelation of pollutant[0 .. n-lag-1] and
\* symptomSeverity[lag .. n-1]: the pollutant value of day k is paired with
\* the severity of day k + lag.
C14_LagAlignment ==
  lagResults # << >> =>
    \A e \in 1..Len(lagResults[1]) :
      LET entry   == lagResults[1][e]
          paired  == Len(dataset) - entry.lagDays
          early   == [k \in 1..paired |-> dataset[k][entry.pollutant]]
          late    == [k \in 1..paired |-> dataset[k + entry.lagDays].symptomSeverity]
      IN  /\ paired >= 1
          /\ entry.correlation = pearsonCorrelation(early, late)

\* a lagged correlation that is not 0 has been reported
C14_Witness ==
  /\ lagResults # << >>
  /\ \E e \in 1..Len(lagResults[1]) :
       /\ lagResults[1][e].lagDays = 3
       /\ ~FIsZero(lagResults[1][e].correlation)

\* C15: getPM25Category returns exactly one of the six bands for every
\* concentration: Good for v <= 30, Satisfactory for 30 < v <= 60, Moderate
\* for 60 < v <= 90, Poor for 90 < v <= 120, Very Poor for 120 < v <= 250,
\* Severe for v > 250, and the band of a smaller concentration is never a
\* more severe one.  (NaN lies in no band's range; it gets a band too.)
C15_CategoryBands ==
  category # << >> =>
    LET v    == reading
        band == category[1].label
    IN  /\ \E k \in 1..Len(Bands) : category[1] = BandStyle(k)
        /\ ~IsNaN(v) =>
              /\ v <= Lit(30, 1) => band = "Good"
              /\ (Lit(30, 1) < v /\ v <= Lit(60, 1)) => band = "Satisfactory"
              /\ (Lit(60, 1) < v /\ v <= Lit(90, 1)) => band = "Moderate"
              /\ (Lit(90, 1) < v /\ v <= Lit(120, 1)) => band = "Poor"
              /\ (Lit(120, 1) < v /\ v <= Lit(250, 1)) => band = "Very Poor"
              /\ v > Lit(250, 1) => band = "Severe"
              /\ \A w \in PMReadings \ {NaN} :
                    w <= v =>
                      \E j, k \in 1..Len(Bands) :
                        /\ j <= k
                        /\ getPM25Category(w).label = Bands[j]
                        /\ band = Bands[k]

\* the concentration 30, the inclusive upper bound of Good, has been
\* categorised
C15_Witness ==
  /\ category # << >>
  /\ reading = Lit(30, 1)
  /\ category[1].label = "Good"

\* C16: the PM2.5-to-AQI conversion has no discontinuity at its bounds 12
\* and 35.4: the value at 12 is 50, the value at 35.4 rounds to 100, and the
\* value one ten-thousandth above either bound is within a hundredth of the
\* value at the bound.
C16_BreakpointContinuity ==
  index # << >> =>
    /\ reading = Lit(12, 1) => index[1] = Lit(50, 1)
    /\ reading = Lit(354, 10) => MathRound(index[1]) = Lit(100, 1)
    /\ reading \in {Lit(12, 1) + 1, Lit(354, 10) + 1} =>
          IntAbs(index[1] - AQIOf(reading - 1)) <= Lit(1, 100)

\* C17: generateAllCitiesData returns the per-city series concatenated in
\* the order of CITIES, 8 x 2,192 = 17,536 records, and the segment of each
\* city equals what generateSyntheticCityData(city) returns when called on
\* its own, whichever of the two is called first.
C17_AllCitiesConcatenation ==
  /\ (forEachIndex = 1 /\ pc = "hash" /\ i = 0) =>
        Len(CITIES) * DayLoopFrom(zone, start, MaxIterations).iterations = 17536
  /\ allReturned # << >> =>
        /\ Len(allReturned[1]) = Len(CITIES) * limit
        /\ \A c \in 1..Len(CITIES), d \in 1..limit :
              allReturned[1][(c - 1) * limit + d].city = CITIES[c]
        /\ \A k \in 1..Len(results), c \in 1..Len(CITIES) :
              results[k].city = CITIES[c] =>
                results[k].data = SubSeq(allReturned[1], (c - 1) * limit + 1, c * limit)

\* C18: a call of generateSyntheticCityData runs to its end: the day loop
\* makes exactly 2,192 iterations, the health loop makes 2,192 iterations,
\* and a draw of 0 from the LCG is followed by a draw that is not 0, so the
\* redraw loops of randomNormal are left.
C18_LoopsRunTheirCourse ==
  /\ (pc = "days" /\ rawData = << >>) =>
        /\ limit = 0 => DayLoopFrom(zone, current, MaxIterations).iterations = 2192
        /\ \A seed \in SeedSamples :
              FIsZero(LCGNext(seed).value) => ~FIsZero(LCGNext(LCGNext(seed).seed).value)
  /\ (pc = "health" /\ limit = 0) => (Len(rawData) = 2192 /\ i <= 2192)
  /\ \A k \in 1..Len(results) : limit = 0 => Len(results[k].data) = 2192

\* C19: in every record produced, symptomSeverity is the smaller of 10 and
\* admissions / 10 rounded to one decimal: it lies between 0 and 10, it is
\* 10 exactly when admissions is 100 or more, and a record with more
\* admissions never has a smaller symptomSeverity.
C19_SymptomSeverity ==
  \A k \in 1..Len(data) :
    /\ ~IsNaN(data[k].symptomSeverity)
    /\ data[k].symptomSeverity = MathMin(Lit(10, 1), ToFixed(NRatio(1, 10, data[k].admissions), 1))
    /\ NLeq(0, data[k].symptomSeverity) /\ NLeq(data[k].symptomSeverity, Lit(10, 1))
    /\ data[k].symptomSeverity = Lit(10, 1) <=> NLeq(Lit(100, 1), data[k].admissions)
    /\ \A j \in 1..Len(data) :
          NLeq(data[j].admissions, data[k].admissions) =>
            NLeq(data[j].symptomSeverity, data[k].symptomSeverity)

\* C20: in every record produced, the stored aqi is the integer nearest to
\* (50/12) * PM2_5 when PM2_5 <= 12, to 50 + (49/23.3) * (PM2_5 - 12) when
\* 12 < PM2_5 <= 35.4, and to 100 + (49/20) * (PM2_5 - 35.5) otherwise, for
\* the unrounded PM2_5 of the day.
C20_StoredAqi ==
  \A k \in 1..Len(data) :
    LET pm     == rawData[k].PM2_5
        linear == IF NLeq(pm, Lit(12, 1)) THEN NRatio(50, 12, pm)
                  ELSE IF NLess(Lit(12, 1), pm) /\ NLeq(pm, Lit(354, 10))
                       THEN NPlus(Lit(50, 1), NRatio(490, 233, NMinus(pm, Lit(12, 1))))
                       ELSE NPlus(Lit(100, 1), NRatio(49, 20, NMinus(pm, Lit(355, 10))))
    IN  /\ ~IsNaN(data[k].aqi)
        /\ data[k].aqi % Scale = 0
        /\ ~IsNaN(linear)
        /\ IntAbs(data[k].aqi - linear) <= Scale \div 2

\* C21: a randomNormal call that has returned made two rng.next() calls plus
\* one for every draw that was exactly 0, and the u and v it fed to log and
\* cos are not 0; while v is being drawn u is already not 0.
C21_TwoDrawsPerNormal ==
  /\ normalPc = "v" => ~FIsZero(uDraw)
  /\ normalValue # << >> =>
        /\ ~FIsZero(normalValue[1].u)
        /\ ~FIsZero(normalValue[1].v)
        /\ drawsMade = 2 + zerosDiscarded

\* a call has returned after it discarded a draw of 0
C21_Witness == normalValue # << >> /\ zerosDiscarded = 1 /\ drawsMade = 3

\* const admissions of a day d when pm is the PM2.5 value entering the sum
\* and noise the value of its randomNormal call
AdmissionsGiven(zn, d, pm, noise) ==
  MathRound(clip(NPlus(NPlus(NPlus(NPlus(NPlus(Lit(20, 1), 3 * SinYear(getDayOfYear(zn, d.dateObj))),
                                         NTimes(Lit(3, 100), pm)),
                                   NTimes(MathMax(0, NMinus(Lit(30, 1), d.temp)), Lit(5, 100))),
                             NTimes(MathMax(0, NMinus(d.hum, Lit(80, 1))), Lit(2, 100))),
                       noise),
                 0, Null))

\* the index into rawData (from 0) of the day whose PM2.5 the claim names
\* for day index k
ClaimedLagIndex(k) == IF k >= 3 THEN k - 3 ELSE k

\* C22: in every iteration of the health loop the PM2.5 value entering the
\* admissions of day index i is the unrounded PM2.5 of day i - 3 when
\* i >= 3 and that of day i when i < 3: the index read is never below 0 and
\* the admissions pushed are those the sum gives with that value.
C22_LaggedPM ==
  [][(pc = "health" /\ i < Len(rawData) /\ i' = i + 1) =>
       /\ ClaimedLagIndex(i) >= 0
       /\ LaggedPM(rawData, i) = rawData[ClaimedLagIndex(i) + 1].PM2_5
       /\ Len(data') = i + 1
       /\ data'[i + 1].admissions =
            AdmissionsGiven(zone, rawData[i + 1], rawData[ClaimedLagIndex(i) + 1].PM2_5,
                            randomNormal(0, Lit(4, 1), rng).value)]_vars

\* the health loop has pushed the record of day index 3, whose PM2.5 is not
\* that of day index 0
C22_Witness ==
  /\ pc = "health"
  /\ Len(data) >= 4
  /\ ~IsNaN(rawData[1].PM2_5)
  /\ rawData[1].PM2_5 # rawData[4].PM2_5

\* C23: for the day indices before 3 whose records the health loop has
\* pushed, the PM2.5 value that entered the admissions is the earliest
\* value of the series, the PM2.5 of day index 0.
C23_EarliestValueBeforeLag ==
  pc = "health" =>
    \A k \in 0..(Len(data) - 1) : k < 3 => LaggedPM(rawData, k) = rawData[1].PM2_5

\* C24: the conversion is monotone: the unrounded aqi computed for a PM2.5
\* value a >= 0 is at most the unrounded aqi of every PM2.5 value b >= a,
\* also when a and b lie on different sides of 12 or of 35.4, and the same
\* holds of the rounded values stored.
C24_MonotoneConversion ==
  (index # << >> /\ ~IsNaN(reading) /\ reading >= 0) =>
    \A b \in PMReadings :
      (~IsNaN(b) /\ reading <= b) =>
        /\ index[1] <= AQIOf(b)
        /\ MathRound(index[1]) <= MathRound(AQIOf(b))

\* the conversion has been made for the PM2.5 value 35.4, the last of the
\* middle segment, with values of the last segment above it
C24_Witness ==
  /\ index # << >>
  /\ reading = Lit(354, 10)
  /\ \E b \in PMReadings : ~IsNaN(b) /\ b > reading /\ AQIOf(b) > index[1]

\* C25: calculateLagCorrelations returns one entry per element of lags, in
\* the order of lags, whatever the length of the dataset: the entry of a lag
\* that is at least the dataset's length is {lagDays: lag, correlation: 0},
\* the entry of a shorter lag holds the correlation of the first n - lag
\* aqi values with the last n - lag symptomSeverity values.
C25_OneEntryPerLag ==
  aqiLagResults # << >> =>
    LET entries == aqiLagResults[1]
        len     == Len(dataset)
    IN  /\ Len(entries) = Len(lagsGiven)
        /\ \A k \in 1..Len(lagsGiven) :
             /\ DOMAIN entries[k] = {"lagDays", "correlation"}
             /\ entries[k].lagDays = lagsGiven[k]
             /\ entries[k].correlation =
                  IF lagsGiven[k] >= len THEN FZero
                  ELSE pearsonCorrelation(
                         [d \in 1..(len - lagsGiven[k]) |-> dataset[d].aqi],
                         [d \in 1..(len - lagsGiven[k]) |-> dataset[d + lagsGiven[k]].symptomSeverity])

\* the call was made with a lag within the dataset whose correlation is not
\* 0 and a lag beyond it
C25_Witness ==
  /\ aqiLagResults # << >>
  /\ \E k \in 1..Len(lagsGiven) : lagsGiven[k] >= Len(dataset)
  /\ \E k \in 1..Len(lagsGiven) :
       lagsGiven[k] < Len(dataset) /\ ~FIsZero(aqiLagResults[1][k].correlation)

\* C26: from an empty list, whatever addToRecentSearches and
\* clearRecentSearches calls are made, the list of recent searches has at
\* most 5 entries, no two of them equal when letter case is ignored, the
\* location added last comes first, and the list holds neither the empty
\* string nor "Current Location" nor a text with a comma in it.
C26_RecentSearches ==
  /\ Len(recentSearches) <= 5
  /\ \A k, m \in 1..Len(recentSearches) :
       k # m => toLowerCase(recentSearches[k]) # toLowerCase(recentSearches[m])
  /\ lastAdded # << >> => (recentSearches # << >> /\ recentSearches[1] = lastAdded[1])
  /\ lastAdded = << >> => recentSearches = << >>
  /\ \A k \in 1..Len(recentSearches) :
       /\ recentSearches[k] # ""
       /\ recentSearches[k] # "Current Location"
       /\ 44 \notin {SearchCharCodes[recentSearches[k]][pos] :
                       pos \in 1..Len(SearchCharCodes[recentSearches[k]])}

\* the list is full and a city searched for in another letter case has moved
\* to the front
C26_Witness ==
  /\ Len(recentSearches) = 5
  /\ recentSearches[1] = "delhi"
  /\ lastAdded = <<"delhi">>
  /\ recentSearches[5] = "Goa"

\* C27: after updateHistory calls aqiHistory holds, in the order they
\* arrived, the readings of the latest run of calls with one loc and no
\* others, cut to the 10 latest: it never has more than 10 entries, and
\* after a call whose loc differs from that of the call before it has
\* exactly one.
C27_CurrentRunOnly ==
  /\ Len(aqiHistory) <= 10
  /\ runLength >= 1 =>
       /\ Len(aqiHistory) = (IF runLength > 10 THEN 10 ELSE runLength)
       /\ \A k \in 1..Len(aqiHistory) :
            aqiHistory[k].time = TimeOfDay(ticks - Len(aqiHistory) + k)

\* C28: a background refresh (performAnalysis(location, true), from its
\* start to the answer or failure of analyzeAirQuality) changes neither
\* status nor errorMsg nor the recent searches; when analyzeAirQuality
\* fails, result and aqiHistory are left as they were as well.
C28_BackgroundRefreshFrame ==
  [][\A id \in 1..Len(issued') :
       (/\ issued'[id].kind = "background"
        /\ (id > Len(issued) \/ issued[id].outcome # issued'[id].outcome)) =>
          /\ status' = status
          /\ errorMsg' = errorMsg
          /\ recentSearches' = recentSearches
          /\ storedRecent' = storedRecent
          /\ issued'[id].outcome = "failed" =>
               (result' = result /\ aqiHistory' = aqiHistory /\ storedHistory' = storedHistory)]_vars

\* a background refresh was answered, its data is displayed, and a later
\* one has failed
C28_Witness ==
  /\ status = "SUCCESS"
  /\ result # << >>
  /\ \E id \in 1..Len(issued) :
       /\ issued[id] = [kind |-> "background", outcome |-> "ok"]
       /\ result[1].request = id
       /\ \E later \in (id + 1)..Len(issued) :
            issued[later] = [kind |-> "background", outcome |-> "failed"]

\* C29: once every analysis begun has been answered or has failed, what is
\* displayed comes from the analysis begun last (a search or a
\* geolocation): the result is its data, an error message is its error,
\* and the status is its outcome; nothing an earlier analysis wrote is left
\* in their place.
C29_NoStaleOverwrite ==
  (inFlight = {} /\ issued # << >> /\ issued[Len(issued)].kind # "background") =>
    /\ result # << >> => result[1].request = Len(issued)
    /\ errorMsg.request # 0 => errorMsg.request = Len(issued)
    /\ status = "SUCCESS" => issued[Len(issued)].outcome = "ok"
    /\ status = "ERROR" => issued[Len(issued)].outcome = "failed"

\* C30: while a result is displayed the personalized alert is shown exactly
\* when the current AQI is above the profile's threshold, and not when it
\* is at the threshold or below it.
C30_AlertIffAboveThreshold ==
  (status = "SUCCESS" /\ result # << >>) =>
    (AlertShown <=> result[1].currentAQI > userProfile.threshold)

====
